---- MODULE Spec2Model ----
(***************************************************************************)
(* A model of the blockchain library: Block (block.rs), Transaction and    *)
(* Output (transaction.rs), the byte codecs (lib.rs), Hashable             *)
(* (hashable.rs) and Blockchain::update_with_block (blockchain.rs).        *)
(*                                                                         *)
(* Unsigned integers wider than TLC's integers (u64, u128) are sequences   *)
(* of base-256 digits, most significant digit first: a u64 has 8 digits, a *)
(* u128 has 16.  A byte vector (Vec<u8>, BlockHash) is a sequence of       *)
(* 0..255, and a String is the sequence of its UTF-8 bytes.                *)
(***************************************************************************)
EXTENDS Integers, Sequences, FiniteSets, TLC

(***************************************************************************)
(* SHA-256 (FIPS 180-4), the digest crypto_hash::digest computes.  A       *)
(* 32-bit word is a pair <<high 16 bits, low 16 bits>>.                    *)
(***************************************************************************)
XorNibble ==
    <<
       <<0, 1, 2, 3, 4, 5, 6, 7, 8, 9, 10, 11, 12, 13, 14, 15>>,
       <<1, 0, 3, 2, 5, 4, 7, 6, 9, 8, 11, 10, 13, 12, 15, 14>>,
       <<2, 3, 0, 1, 6, 7, 4, 5, 10, 11, 8, 9, 14, 15, 12, 13>>,
       <<3, 2, 1, 0, 7, 6, 5, 4, 11, 10, 9, 8, 15, 14, 13, 12>>,
       <<4, 5, 6, 7, 0, 1, 2, 3, 12, 13, 14, 15, 8, 9, 10, 11>>,
       <<5, 4, 7, 6, 1, 0, 3, 2, 13, 12, 15, 14, 9, 8, 11, 10>>,
       <<6, 7, 4, 5, 2, 3, 0, 1, 14, 15, 12, 13, 10, 11, 8, 9>>,
       <<7, 6, 5, 4, 3, 2, 1, 0, 15, 14, 13, 12, 11, 10, 9, 8>>,
       <<8, 9, 10, 11, 12, 13, 14, 15, 0, 1, 2, 3, 4, 5, 6, 7>>,
       <<9, 8, 11, 10, 13, 12, 15, 14, 1, 0, 3, 2, 5, 4, 7, 6>>,
       <<10, 11, 8, 9, 14, 15, 12, 13, 2, 3, 0, 1, 6, 7, 4, 5>>,
       <<11, 10, 9, 8, 15, 14, 13, 12, 3, 2, 1, 0, 7, 6, 5, 4>>,
       <<12, 13, 14, 15, 8, 9, 10, 11, 4, 5, 6, 7, 0, 1, 2, 3>>,
       <<13, 12, 15, 14, 9, 8, 11, 10, 5, 4, 7, 6, 1, 0, 3, 2>>,
       <<14, 15, 12, 13, 10, 11, 8, 9, 6, 7, 4, 5, 2, 3, 0, 1>>,
       <<15, 14, 13, 12, 11, 10, 9, 8, 7, 6, 5, 4, 3, 2, 1, 0>>
    >>

XorByte ==
    [a \in 1..256 |->
        [b \in 1..256 |->
            XorNibble[((a - 1) \div 16) + 1][((b - 1) \div 16) + 1] * 16
            + XorNibble[((a - 1) % 16) + 1][((b - 1) % 16) + 1]] \o <<>>] \o <<>>

Xor16(a, b) ==
    XorByte[(a \div 256) + 1][(b \div 256) + 1] * 256
    + XorByte[(a % 256) + 1][(b % 256) + 1]

And16(a, b) == (a + b - Xor16(a, b)) \div 2

WXor(x, y) == <<Xor16(x[1], y[1]), Xor16(x[2], y[2])>>
WXor3(x, y, z) == <<Xor16(Xor16(x[1], y[1]), z[1]), Xor16(Xor16(x[2], y[2]), z[2])>>
WAnd(x, y) == <<And16(x[1], y[1]), And16(x[2], y[2])>>
WAdd(x, y) ==
    <<(x[1] + y[1] + ((x[2] + y[2]) \div 65536)) % 65536, (x[2] + y[2]) % 65536>>

\* rotate right by n < 16 bits, p = 2^n, q = 2^(16-n)
Rot(x, p, q) == <<(x[1] \div p) + (x[2] % p) * q, (x[2] \div p) + (x[1] % p) * q>>
\* rotate right by 16 + n bits
RotS(x, p, q) == <<(x[2] \div p) + (x[1] % p) * q, (x[1] \div p) + (x[2] % p) * q>>
ShrW(x, p, q) == <<x[1] \div p, (x[2] \div p) + (x[1] % p) * q>>

SmallSigma0(x) == WXor3(Rot(x, 128, 512), RotS(x, 4, 16384), ShrW(x, 8, 8192))
SmallSigma1(x) == WXor3(RotS(x, 2, 32768), RotS(x, 8, 8192), ShrW(x, 1024, 64))
BigSigma0(x) == WXor3(Rot(x, 4, 16384), Rot(x, 8192, 8), RotS(x, 64, 1024))
BigSigma1(x) == WXor3(Rot(x, 64, 1024), Rot(x, 2048, 32), RotS(x, 512, 128))
Ch(x, y, z) == WXor(z, WAnd(x, WXor(y, z)))
\* x | y for words without a common bit
WOr(x, y) == <<x[1] + y[1], x[2] + y[2]>>
Maj(x, y, z) == WOr(WAnd(x, y), WAnd(z, WXor(x, y)))

SHA256_K ==
    <<
       <<17034, 12184>>, <<28983, 17553>>, <<46528, 64463>>, <<59829, 56229>>,
       <<14678, 49755>>, <<23025, 4593>>, <<37439, 33444>>, <<43804, 24277>>,
       <<55303, 43672>>, <<4739, 23297>>, <<9265, 34238>>, <<21772, 32195>>,
       <<29374, 23924>>, <<32990, 45566>>, <<39900, 1703>>, <<49563, 61812>>,
       <<58523, 27073>>, <<61374, 18310>>, <<4033, 40390>>, <<9228, 41420>>,
       <<11753, 11375>>, <<19060, 33962>>, <<23728, 43484>>, <<30457, 35034>>,
       <<38974, 20818>>, <<43057, 50797>>, <<45059, 10184>>, <<48985, 32711>>,
       <<50912, 3059>>, <<54695, 37191>>, <<1738, 25425>>, <<5161, 10599>>,
       <<10167, 2693>>, <<11803, 8504>>, <<19756, 28156>>, <<21304, 3347>>,
       <<25866, 29524>>, <<30314, 2747>>, <<33218, 51502>>, <<37490, 11397>>,
       <<41663, 59553>>, <<43034, 26187>>, <<49739, 35696>>, <<51052, 20899>>,
       <<53650, 59417>>, <<54937, 1572>>, <<62478, 13701>>, <<4202, 41072>>,
       <<6564, 49430>>, <<7735, 27656>>, <<10056, 30540>>, <<13488, 48309>>,
       <<14620, 3251>>, <<20184, 43594>>, <<23452, 51791>>, <<26670, 28659>>,
       <<29839, 33518>>, <<30885, 25455>>, <<33992, 30740>>, <<36039, 520>>,
       <<37054, 65530>>, <<42064, 27883>>, <<48889, 41975>>, <<50801, 30962>>
    >>

SHA256_H0 ==
    <<
       <<27145, 58983>>, <<47975, 44677>>, <<15470, 62322>>, <<42319, 62778>>,
       <<20750, 21119>>, <<39685, 26764>>, <<8067, 55723>>, <<23520, 52505>>
    >>

Zeros(n) == [i \in 1..n |-> 0]

\* message padding: 0x80, zeros up to 56 mod 64, 64-bit big-endian bit length
Pad(msg) ==
    LET n == Len(msg)
        z == (119 - (n % 64)) % 64
        bits == n * 8
    IN msg \o <<128>> \o Zeros(z) \o Zeros(4)
           \o <<(bits \div 16777216) % 256, (bits \div 65536) % 256,
                (bits \div 256) % 256, bits % 256>>

\* the 16 big-endian words of 64-byte chunk c (0-based) of padded message p
ChunkWords(p, c) ==
    [i \in 1..16 |->
        LET o == c * 64 + (i - 1) * 4
        IN <<p[o + 1] * 256 + p[o + 2], p[o + 3] * 256 + p[o + 4]>>]

Word == (0..65535) \X (0..65535)

ScheduleStep ==
    [w \in Seq(Word) |->
        LET t == Len(w) + 1
        IN Append(w, WAdd(WAdd(SmallSigma1(w[t - 2]), w[t - 7]),
                          WAdd(SmallSigma0(w[t - 15]), w[t - 16])))]

RECURSIVE Schedule(_)
Schedule(w) == IF Len(w) >= 64 THEN w ELSE Schedule(ScheduleStep[w])

T1(s, kw) == WAdd(WAdd(s[8], BigSigma1(s[5])), WAdd(Ch(s[5], s[6], s[7]), kw))
T2(s) == WAdd(BigSigma0(s[1]), Maj(s[1], s[2], s[3]))
Rotate(s, t1, t2) ==
    <<WAdd(t1, t2), s[1], s[2], s[3], WAdd(s[4], t1), s[5], s[6], s[7]>>

Round == [a \in Seq(Word) \X Word |-> Rotate(a[1], T1(a[1], a[2]), T2(a[1]))]

RECURSIVE Rounds(_, _)
Rounds(st, w) ==
    IF st[1] > 64 THEN st[2]
    ELSE Rounds(<<st[1] + 1, Round[<<st[2], WAdd(SHA256_K[st[1]], w[st[1]])>>]>>, w)

AddState(h, r) ==
    <<WAdd(h[1], r[1]), WAdd(h[2], r[2]), WAdd(h[3], r[3]), WAdd(h[4], r[4]),
      WAdd(h[5], r[5]), WAdd(h[6], r[6]), WAdd(h[7], r[7]), WAdd(h[8], r[8])>>

Compress(h, words) == AddState(h, Rounds(<<1, h>>, Schedule(words)))

RECURSIVE Chunks(_, _, _)
Chunks(h, p, c) ==
    IF c * 64 >= Len(p) THEN h
    ELSE Chunks(Compress(h, ChunkWords(p, c)), p, c + 1)

\* the 32 bytes of the 8 words of h, each word big-endian
StateBytes(h) ==
    [i \in 1..32 |->
        IF (i - 1) % 2 = 0
        THEN h[((i - 1) \div 4) + 1][(((i - 1) % 4) \div 2) + 1] \div 256
        ELSE h[((i - 1) \div 4) + 1][(((i - 1) % 4) \div 2) + 1] % 256]

SHA256(msg) == StateBytes(Chunks(SHA256_H0, Pad(msg), 0))

(***************************************************************************)
(* Fixed-width unsigned integers as base-256 digits, most significant      *)
(* first.                                                                  *)
(***************************************************************************)
\* data >> (8 * k), at the width of data
Shr(data, k) ==
    [i \in 1..Len(data) |-> IF i <= k THEN 0 ELSE data[i - k]]

\* data as u8: the least significant digit
AsU8(data) == data[Len(data)]

\* a < b for two unsigned integers of one width
Less(a, b) ==
    \E i \in 1..Len(a) :
        /\ a[i] < b[i]
        /\ \A j \in 1..(i - 1) : a[j] = b[j]

\* a + b at the width of a: the wrapped sum and whether it overflowed
Add(a, b) ==
    LET n == Len(a)
        carry[i \in 0..n] ==
            IF i = 0 THEN 0
            ELSE (a[n - i + 1] + b[n - i + 1] + carry[i - 1]) \div 256
    IN [value |-> [k \in 1..n |-> (a[k] + b[k] + carry[n - k]) % 256],
        overflow |-> carry[n] = 1]

\* a - b at the width of a, for b <= a
Sub(a, b) ==
    LET n == Len(a)
        borrow[i \in 0..n] ==
            IF i = 0 THEN 0
            ELSE IF a[n - i + 1] - b[n - i + 1] - borrow[i - 1] < 0 THEN 1 ELSE 0
    IN [k \in 1..n |-> (a[k] - b[k] - borrow[n - k] + 256) % 256]

u32_bytes(data) ==
    <<data % 256,
      (data \div 256) % 256,
      (data \div 65536) % 256,
      (data \div 16777216) % 256>>

u64_bytes(data) == [i \in 1..8 |-> AsU8(Shr(data, i - 1))]

u128_bytes(data) == [i \in 1..16 |-> AsU8(Shr(data, i - 1))]

\* A slip in lines 87-102: the first 16 bytes are read, not the last.
difficulty_bytes_as_u128_first_half(v) ==
    <<v[16], v[15], v[14], v[13], v[12], v[11], v[10], v[9],
      v[8], v[7], v[6], v[5], v[4], v[3], v[2], v[1]>>

\* v[31] << 120 | v[30] << 112 | ... | v[16], with v indexed from 0
difficulty_bytes_as_u128(v) ==
    <<v[32], v[31], v[30], v[29], v[28], v[27], v[26], v[25],
      v[24], v[23], v[22], v[21], v[20], v[19], v[18], v[17]>>

(***************************************************************************)
(* Hashable: bytes() of Output, Transaction and Block, and hash().         *)
(***************************************************************************)
hash(bytes) == SHA256(bytes)

Output_bytes(output) == output.to_address \o u64_bytes(output.value)

RECURSIVE Outputs_bytes(_)
Outputs_bytes(outputs) ==
    IF outputs = <<>> THEN <<>>
    ELSE Output_bytes(Head(outputs)) \o Outputs_bytes(Tail(outputs))

\* A slip in lines 190-201: the number of inputs goes before them.
Transaction_bytes_with_count(transaction) ==
    <<Len(transaction.inputs)>>
    \o Outputs_bytes(transaction.inputs) \o Outputs_bytes(transaction.outputs)

Transaction_bytes(transaction) ==
    Outputs_bytes(transaction.inputs) \o Outputs_bytes(transaction.outputs)

RECURSIVE Transactions_bytes(_)
Transactions_bytes(transactions) ==
    IF transactions = <<>> THEN <<>>
    ELSE Transaction_bytes(Head(transactions)) \o Transactions_bytes(Tail(transactions))

\* A slip in lines 183-194: the stored hash is part of the bytes.
Block_bytes_with_hash(block) ==
    u32_bytes(block.index)
    \o u128_bytes(block.timestamp)
    \o block.hash
    \o block.previous_block_hash
    \o u64_bytes(block.nonce)
    \o Transactions_bytes(block.transactions)
    \o u128_bytes(block.difficulty)

Block_bytes(block) ==
    u32_bytes(block.index)
    \o u128_bytes(block.timestamp)
    \o block.previous_block_hash
    \o u64_bytes(block.nonce)
    \o Transactions_bytes(block.transactions)
    \o u128_bytes(block.difficulty)

\* A slip in line 205: >= for >.
check_difficulty_allows_equal(h, difficulty) ==
    ~Less(difficulty, difficulty_bytes_as_u128(h))

check_difficulty(h, difficulty) == Less(difficulty_bytes_as_u128(h), difficulty)

(***************************************************************************)
(* Transaction                                                             *)
(***************************************************************************)
U64_ZERO == <<0, 0, 0, 0, 0, 0, 0, 0>>

\* iter().map(|o| o.value).sum() in u64: the wrapped sum, and whether an
\* addition overflowed on the way
RECURSIVE Sum(_, _)
Sum(outputs, acc) ==
    IF outputs = <<>> THEN acc
    ELSE LET s == Add(acc.value, Head(outputs).value)
         IN Sum(Tail(outputs),
                [value |-> s.value, overflow |-> acc.overflow \/ s.overflow])

input_value(transaction) ==
    Sum(transaction.inputs, [value |-> U64_ZERO, overflow |-> FALSE])

output_value(transaction) ==
    Sum(transaction.outputs, [value |-> U64_ZERO, overflow |-> FALSE])

input_hashes(transaction) ==
    {hash(Output_bytes(transaction.inputs[i])) : i \in 1..Len(transaction.inputs)}

output_hashes(transaction) ==
    {hash(Output_bytes(transaction.outputs[i])) : i \in 1..Len(transaction.outputs)}

\* A slip in line 179: the outputs are tested, not the inputs.
is_coinbase_by_outputs(transaction) == transaction.outputs = <<>>

is_coinbase(transaction) == transaction.inputs = <<>>

(***************************************************************************)
(* Block                                                                   *)
(***************************************************************************)
Block_new(index, timestamp, previous_block_hash, transactions, difficulty) ==
    [index |-> index,
     timestamp |-> timestamp,
     hash |-> Zeros(32),
     previous_block_hash |-> previous_block_hash,
     nonce |-> U64_ZERO,
     transactions |-> transactions,
     difficulty |-> difficulty]

U64_ONE == <<0, 0, 0, 0, 0, 0, 0, 1>>
U64_MAX == <<255, 255, 255, 255, 255, 255, 255, 255>>
U128_ZERO == <<0, 0, 0, 0, 0, 0, 0, 0, 0, 0, 0, 0, 0, 0, 0, 0>>

\* lines 167-172: the digest h of the block with the nonce under trial
\* passes, and mine stores it and returns, or the loop goes on
RECURSIVE mine_loop(_, _)
\* A slip in line 170: the nonce moves on once more after the hash is stored.
mine_attempt_advances_nonce(block, h) ==
    IF check_difficulty(h, block.difficulty)
    THEN [found |-> TRUE,
          block |-> [block EXCEPT !.hash = h,
                                  !.nonce = Add(block.nonce, U64_ONE).value]]
    ELSE mine_loop(block, Add(block.nonce, U64_ONE).value)

\* A slip in line 170: the digest is stored as the previous block's hash too.
mine_attempt_wrong_field(block, h) ==
    IF check_difficulty(h, block.difficulty)
    THEN [found |-> TRUE,
          block |-> [block EXCEPT !.hash = h, !.previous_block_hash = h]]
    ELSE mine_loop(block, Add(block.nonce, U64_ONE).value)

mine_attempt(block, h) ==
    IF check_difficulty(h, block.difficulty)
    THEN [found |-> TRUE, block |-> [block EXCEPT !.hash = h]]
    ELSE mine_loop(block, Add(block.nonce, U64_ONE).value)

\* line 165: the loop of mine from nonce_attempt on, up to but without
\* u64::MAX: the block as mine leaves it, and whether a nonce was found.
mine_loop(block, nonce_attempt) ==
    IF nonce_attempt = U64_MAX THEN [found |-> FALSE, block |-> block]
    ELSE mine_attempt([block EXCEPT !.nonce = nonce_attempt],
                      hash(Block_bytes([block EXCEPT !.nonce = nonce_attempt])))

\* A slip in line 165: the range starts at 1.
mine_from_one(block) ==
    IF block.difficulty = U128_ZERO
    THEN [found |-> FALSE, block |-> [block EXCEPT !.nonce = Sub(U64_MAX, U64_ONE)]]
    ELSE mine_loop(block, U64_ONE)

\* Block::mine: the loop from nonce 0.  The range 0..u64::max_value()
\* excludes its upper end, so a loop that finds nothing ends with
\* nonce = u64::MAX - 1 and the hash as it was.  No digest is below
\* difficulty 0, so for it the loop runs to that end, which is given here
\* without running it.
mine(block) ==
    IF block.difficulty = U128_ZERO
    THEN [found |-> FALSE, block |-> [block EXCEPT !.nonce = Sub(U64_MAX, U64_ONE)]]
    ELSE mine_loop(block, U64_ZERO)

\* lines 166-171, one turn of the loop on the block that holds the nonce
\* under trial: its digest h is stored when it passes, and only then.
mine_turn(block, h) ==
    IF check_difficulty(h, block.difficulty)
    THEN [found |-> TRUE, block |-> [block EXCEPT !.hash = h]]
    ELSE [found |-> FALSE, block |-> block]

\* A slip in line 165: the loop does not move on to the next nonce.
range_next_stays(nonce_attempt) == nonce_attempt

\* line 165: the range hands out the nonce after nonce_attempt.
range_next(nonce_attempt) == Add(nonce_attempt, U64_ONE).value

(***************************************************************************)
(* Blockchain                                                              *)
(***************************************************************************)
BlockValidationErr ==
    {"MismatchedIndex", "InvalidHash", "AchronologicalTimestamp",
     "MismatchedPreviousHash", "InvalidGenesisBlockFormat", "InvalidInput",
     "InsufficientInputValue", "InvalidCoinbaseTransaction",
     "FeeExceedsCoinbaseTransactionOutputValue"}

Blockchain_new == [blocks |-> <<>>, unspent_outputs |-> {}]

is_genesis_block(index) == index = 0

\* A slip in line 75: an index beyond the length of the chain passes.
mismatched_index_accepts_later(block, index) ==
    block.index < index

\* lines 73-75: the candidate's index is not the length of the chain
mismatched_index(block, index) ==
    block.index # index

\* A slip in line 77: a candidate whose stored hash field is not the digest
\* of its bytes is refused as well.
invalid_hash_unless_stored(block) ==
    \/ block.hash # hash(Block_bytes(block))
    \/ ~check_difficulty(hash(Block_bytes(block)), block.difficulty)

\* A slip in line 77: the stored hash field is tested, not block.hash().
invalid_hash_of_stored_field(block) ==
    ~check_difficulty(block.hash, block.difficulty)

\* line 77: the digest of the candidate's bytes, computed by the call, is
\* not below the candidate's difficulty
invalid_hash(block) ==
    ~check_difficulty(hash(Block_bytes(block)), block.difficulty)

\* A slip in line 85: < for <=, so that an equal timestamp passes.
achronological_allows_equal(block, previous_block) ==
    Less(block.timestamp, previous_block.timestamp)

\* A slip in line 85: >= for <=, so that a later timestamp is refused.
achronological_reversed(block, previous_block) ==
    ~Less(block.timestamp, previous_block.timestamp)

\* line 85: the candidate is not later than the previous block
achronological(block, previous_block) ==
    ~Less(previous_block.timestamp, block.timestamp)

\* A slip in line 87: the wrong field of the previous block is read.
mismatched_previous_hash_wrong_field(block, previous_block) ==
    block.previous_block_hash # previous_block.previous_block_hash

\* A slip in line 87: the previous block is hashed anew, its hash field is
\* not read.
mismatched_previous_hash_recomputed(block, previous_block) ==
    block.previous_block_hash # hash(Block_bytes(previous_block))

\* line 87: the candidate does not name the previous block's stored hash
mismatched_previous_hash(block, previous_block) ==
    block.previous_block_hash # previous_block.hash

\* A slip in line 80: an empty previous hash passes for a genesis block.
invalid_genesis_block_format_allows_empty(block) ==
    block.previous_block_hash # Zeros(32) /\ block.previous_block_hash # <<>>

\* line 80: the previous hash of a genesis candidate is not 32 zero bytes
invalid_genesis_block_format(block) ==
    block.previous_block_hash # Zeros(32)

\* A slip in lines 73-78: the difficulty is tested before the index.
check_header_hash_first(self, block) ==
    LET index == Len(self.blocks)
    IN IF invalid_hash(block) THEN "InvalidHash"
       ELSE IF mismatched_index(block, index) THEN "MismatchedIndex"
       ELSE IF is_genesis_block(index)
       THEN IF invalid_genesis_block_format(block)
            THEN "InvalidGenesisBlockFormat"
            ELSE "Ok"
       ELSE LET previous_block == self.blocks[index]
            IN IF achronological(block, previous_block)
               THEN "AchronologicalTimestamp"
               ELSE IF mismatched_previous_hash(block, previous_block)
               THEN "MismatchedPreviousHash"
               ELSE "Ok"

\* A slip in lines 84-89: the previous hash is tested before the timestamp.
check_header_previous_hash_first(self, block) ==
    LET index == Len(self.blocks)
    IN IF mismatched_index(block, index) THEN "MismatchedIndex"
       ELSE IF invalid_hash(block) THEN "InvalidHash"
       ELSE IF is_genesis_block(index)
       THEN IF invalid_genesis_block_format(block)
            THEN "InvalidGenesisBlockFormat"
            ELSE "Ok"
       ELSE LET previous_block == self.blocks[index]
            IN IF mismatched_previous_hash(block, previous_block)
               THEN "MismatchedPreviousHash"
               ELSE IF achronological(block, previous_block)
               THEN "AchronologicalTimestamp"
               ELSE "Ok"

\* A slip in lines 79-83: the format of a genesis block is asked of every
\* candidate, not only of the first.
check_header_genesis_format_everywhere(self, block) ==
    LET index == Len(self.blocks)
    IN IF mismatched_index(block, index) THEN "MismatchedIndex"
       ELSE IF invalid_hash(block) THEN "InvalidHash"
       ELSE IF invalid_genesis_block_format(block)
       THEN "InvalidGenesisBlockFormat"
       ELSE IF is_genesis_block(index) THEN "Ok"
       ELSE LET previous_block == self.blocks[index]
            IN IF achronological(block, previous_block)
               THEN "AchronologicalTimestamp"
               ELSE IF mismatched_previous_hash(block, previous_block)
               THEN "MismatchedPreviousHash"
               ELSE "Ok"

\* lines 73-90: the first header check that fails, or "Ok"
check_header(self, block) ==
    LET index == Len(self.blocks)
    IN IF mismatched_index(block, index) THEN "MismatchedIndex"
       ELSE IF invalid_hash(block) THEN "InvalidHash"
       ELSE IF is_genesis_block(index)
       THEN IF invalid_genesis_block_format(block)
            THEN "InvalidGenesisBlockFormat"
            ELSE "Ok"
       ELSE LET previous_block == self.blocks[index]
            IN IF achronological(block, previous_block)
               THEN "AchronologicalTimestamp"
               ELSE IF mismatched_previous_hash(block, previous_block)
               THEN "MismatchedPreviousHash"
               ELSE "Ok"

\* lines 107-117 of the loop over the non-first transactions: the values,
\* the fee, and the digests the transaction spends and creates
check_transaction_value(acc, transaction, inputs, iv, ov) ==
    IF Less(iv.value, ov.value)
    THEN [acc EXCEPT !.result = "InsufficientInputValue",
                     !.overflow = @ \/ iv.overflow \/ ov.overflow]
    ELSE [result |-> "Ok",
          block_spent |-> acc.block_spent \cup inputs,
          block_created |-> acc.block_created \cup output_hashes(transaction),
          total_fee |-> Add(acc.total_fee, Sub(iv.value, ov.value)).value,
          overflow |-> \/ acc.overflow \/ iv.overflow \/ ov.overflow
                       \/ Add(acc.total_fee, Sub(iv.value, ov.value)).overflow]

\* A slip in lines 102-111: the values are compared before the inputs are
\* looked up.
check_transaction_inputs_value_first(unspent_outputs, acc, transaction, inputs) ==
    IF Less(input_value(transaction).value, output_value(transaction).value)
    THEN [acc EXCEPT !.result = "InsufficientInputValue"]
    ELSE IF inputs \ unspent_outputs # {}
    THEN [acc EXCEPT !.result = "InvalidInput"]
    ELSE check_transaction_value(acc, transaction, inputs,
                                 input_value(transaction), output_value(transaction))

\* lines 102-105: the input digests must all be unspent
check_transaction_inputs(unspent_outputs, acc, transaction, inputs) ==
    IF inputs \ unspent_outputs # {}
    THEN [acc EXCEPT !.result = "InvalidInput"]
    ELSE check_transaction_value(acc, transaction, inputs,
                                 input_value(transaction), output_value(transaction))

\* lines 102-117: one pass of the loop over the non-first transactions
check_transaction(unspent_outputs, acc, transaction) ==
    check_transaction_inputs(unspent_outputs, acc, transaction,
                             input_hashes(transaction))

\* lines 101-118: the loop, which returns at the first transaction that fails
RECURSIVE check_transactions(_, _, _)
check_transactions(unspent_outputs, acc, transactions) ==
    IF transactions = <<>> \/ acc.result # "Ok" THEN acc
    ELSE check_transactions(unspent_outputs,
                            check_transaction(unspent_outputs, acc, Head(transactions)),
                            Tail(transactions))

\* A slip in lines 126-128: extend first, retain second, which also drops
\* the outputs the block created and spent.
commit_outputs_extend_then_retain(unspent_outputs, block_spent, block_created) ==
    (unspent_outputs \cup block_created) \ block_spent

\* A slip in lines 126-128: the outputs the block spent are kept out of
\* what it created as well.
commit_outputs_drops_respent(unspent_outputs, block_spent, block_created) ==
    (unspent_outputs \ block_spent) \cup (block_created \ block_spent)

\* A slip in line 126: the retain is left out, and spent outputs stay.
commit_outputs_without_retain(unspent_outputs, block_spent, block_created) ==
    unspent_outputs \cup block_created

\* lines 126-128: retain the outputs the block did not spend, then extend
\* with the outputs it created
commit_outputs(unspent_outputs, block_spent, block_created) ==
    (unspent_outputs \ block_spent) \cup block_created

\* A slip in lines 120-128: the commit comes before the fee check, so the
\* error leaves the unspent set changed.
check_fee_after_commit(self, coinbase, acc, cv) ==
    IF acc.result # "Ok"
    THEN [result |-> acc.result, unspent_outputs |-> self.unspent_outputs,
          overflow |-> acc.overflow]
    ELSE [result |-> IF Less(cv.value, acc.total_fee)
                     THEN "FeeExceedsCoinbaseTransactionOutputValue"
                     ELSE "Ok",
          unspent_outputs |->
              commit_outputs(self.unspent_outputs, acc.block_spent,
                             acc.block_created \cup output_hashes(coinbase)),
          overflow |-> acc.overflow \/ cv.overflow]

\* A slip in line 120: the fee is compared with the input value of the
\* coinbase, which is 0.
check_fee_against_inputs(self, coinbase, acc, cv) ==
    IF acc.result # "Ok"
    THEN [result |-> acc.result, unspent_outputs |-> self.unspent_outputs,
          overflow |-> acc.overflow]
    ELSE IF Less(input_value(coinbase).value, acc.total_fee)
    THEN [result |-> "FeeExceedsCoinbaseTransactionOutputValue",
          unspent_outputs |-> self.unspent_outputs,
          overflow |-> acc.overflow \/ cv.overflow]
    ELSE [result |-> "Ok",
          unspent_outputs |->
              commit_outputs(self.unspent_outputs, acc.block_spent,
                             acc.block_created \cup output_hashes(coinbase)),
          overflow |-> acc.overflow \/ cv.overflow]

\* lines 120-128: the fee check against the coinbase value cv, and the commit
check_fee(self, coinbase, acc, cv) ==
    IF acc.result # "Ok"
    THEN [result |-> acc.result, unspent_outputs |-> self.unspent_outputs,
          overflow |-> acc.overflow]
    ELSE IF Less(cv.value, acc.total_fee)
    THEN [result |-> "FeeExceedsCoinbaseTransactionOutputValue",
          unspent_outputs |-> self.unspent_outputs,
          overflow |-> acc.overflow \/ cv.overflow]
    ELSE [result |-> "Ok",
          unspent_outputs |->
              commit_outputs(self.unspent_outputs, acc.block_spent,
                             acc.block_created \cup output_hashes(coinbase)),
          overflow |-> acc.overflow \/ cv.overflow]

\* A slip in lines 97-105: the outputs of the coinbase count as unspent
\* while the other transactions of the block are checked.
check_block_transactions_coinbase_first(self, block) ==
    IF block.transactions = <<>>
    THEN [result |-> "Ok", unspent_outputs |-> self.unspent_outputs,
          overflow |-> FALSE]
    ELSE IF ~is_coinbase(Head(block.transactions))
    THEN [result |-> "InvalidCoinbaseTransaction",
          unspent_outputs |-> self.unspent_outputs, overflow |-> FALSE]
    ELSE check_fee(self, Head(block.transactions),
                   check_transactions(
                       self.unspent_outputs \cup output_hashes(Head(block.transactions)),
                       [result |-> "Ok", block_spent |-> {}, block_created |-> {},
                        total_fee |-> U64_ZERO, overflow |-> FALSE],
                       Tail(block.transactions)),
                   output_value(Head(block.transactions)))

\* A slip in lines 92-95: a block without transactions is refused for its
\* missing coinbase.
check_block_transactions_requires_coinbase(self, block) ==
    IF block.transactions = <<>> \/ ~is_coinbase(Head(block.transactions))
    THEN [result |-> "InvalidCoinbaseTransaction",
          unspent_outputs |-> self.unspent_outputs, overflow |-> FALSE]
    ELSE check_fee(self, Head(block.transactions),
                   check_transactions(
                       self.unspent_outputs,
                       [result |-> "Ok", block_spent |-> {}, block_created |-> {},
                        total_fee |-> U64_ZERO, overflow |-> FALSE],
                       Tail(block.transactions)),
                   output_value(Head(block.transactions)))

\* A slip in lines 120-128: the outputs of the coinbase go into the unspent
\* set before the other transactions are checked, and stay there when the
\* block is refused.
check_block_transactions_commits_coinbase_early(self, block) ==
    LET Early(body) ==
            IF body.result = "Ok" THEN body
            ELSE [body EXCEPT !.unspent_outputs =
                                  @ \cup output_hashes(Head(block.transactions))]
    IN IF block.transactions = <<>>
       THEN [result |-> "Ok", unspent_outputs |-> self.unspent_outputs,
             overflow |-> FALSE]
       ELSE IF ~is_coinbase(Head(block.transactions))
       THEN [result |-> "InvalidCoinbaseTransaction",
             unspent_outputs |-> self.unspent_outputs, overflow |-> FALSE]
       ELSE Early(check_fee(self, Head(block.transactions),
                            check_transactions(
                                self.unspent_outputs,
                                [result |-> "Ok", block_spent |-> {},
                                 block_created |-> {},
                                 total_fee |-> U64_ZERO, overflow |-> FALSE],
                                Tail(block.transactions)),
                            output_value(Head(block.transactions))))

\* lines 92-129: the result of the transaction checks, the unspent set they
\* leave, and whether a u64 addition overflowed on the way
check_block_transactions(self, block) ==
    IF block.transactions = <<>>
    THEN [result |-> "Ok", unspent_outputs |-> self.unspent_outputs,
          overflow |-> FALSE]
    ELSE IF ~is_coinbase(Head(block.transactions))
    THEN [result |-> "InvalidCoinbaseTransaction",
          unspent_outputs |-> self.unspent_outputs, overflow |-> FALSE]
    ELSE check_fee(self, Head(block.transactions),
                   check_transactions(
                       self.unspent_outputs,
                       [result |-> "Ok", block_spent |-> {}, block_created |-> {},
                        total_fee |-> U64_ZERO, overflow |-> FALSE],
                       Tail(block.transactions)),
                   output_value(Head(block.transactions)))

\* A slip in line 131: the block is put in front of the chain.
push_block_front(self, block, body) ==
    [result |-> body.result,
     blocks |-> IF body.result = "Ok" THEN <<block>> \o self.blocks ELSE self.blocks,
     unspent_outputs |-> body.unspent_outputs,
     overflow |-> body.overflow]

\* A slip in line 131: the block is pushed with its digest as its hash, not
\* with the hash it came with.
push_block_restamps(self, block, body) ==
    [result |-> body.result,
     blocks |-> IF body.result = "Ok"
                THEN Append(self.blocks,
                            [block EXCEPT !.hash = hash(Block_bytes(block))])
                ELSE self.blocks,
     unspent_outputs |-> body.unspent_outputs,
     overflow |-> body.overflow]

\* line 131: the block is pushed when the transaction checks returned Ok
push_block(self, block, body) ==
    [result |-> body.result,
     blocks |-> IF body.result = "Ok" THEN Append(self.blocks, block) ELSE self.blocks,
     unspent_outputs |-> body.unspent_outputs,
     overflow |-> body.overflow]

\* lines 75-134 after the header checks found header
check_body(self, block, header) ==
    IF header # "Ok"
    THEN [result |-> header, blocks |-> self.blocks,
          unspent_outputs |-> self.unspent_outputs, overflow |-> FALSE]
    ELSE push_block(self, block, check_block_transactions(self, block))

\* Blockchain::update_with_block: the value it returns, the chain it leaves,
\* and whether an addition overflowed (a panic where overflow is checked,
\* the wrapped value where it is not)
update_with_block(self, block) ==
    check_body(self, block, check_header(self, block))

(***************************************************************************)
(* The state: a chain, the block its caller is preparing (a sequence of    *)
(* at most one block), what the last call of update_with_block returned    *)
(* and, until the caller has taken that result or while it holds a block   *)
(* it has mined, what the call was given; and, for the functions that are  *)
(* called on their own, the arguments of the call and what it returned,    *)
(* and for the loop of mine the nonce it tries next.                       *)
(***************************************************************************)
VARIABLES blocks, unspent_outputs, block, result, arguments, answer,
          nonce_attempt

vars == <<blocks, unspent_outputs, block, result, arguments, answer,
          nonce_attempt>>

\* The longest chain for which the caller still prepares a block.
MaxBlocks == 3

(***************************************************************************)
(* The values callers pass.                                                *)
(***************************************************************************)
Output(to_address, value) == [to_address |-> to_address, value |-> value]
Transaction(inputs, outputs) == [inputs |-> inputs, outputs |-> outputs]

\* the u64 and the u128 of a number below 65536
U64(n) == <<0, 0, 0, 0, 0, 0, n \div 256, n % 256>>
U128(n) == <<0, 0, 0, 0, 0, 0, 0, 0, 0, 0, 0, 0, 0, 0, n \div 256, n % 256>>

A1 == Output(<<65>>, U64(1))
B1 == Output(<<66>>, U64(1))
B2 == Output(<<66>>, U64(2))
C1 == Output(<<67>>, U64(1))
C2 == Output(<<67>>, U64(2))
C3 == Output(<<67>>, U64(3))
CMAX == Output(<<67>>, U64_MAX)

\* a coinbase that creates A1 twice and B2
TxsCoinbaseOnly == <<Transaction(<<>>, <<A1, A1, B2>>)>>
\* a spend of A1 and B2 that pays a fee of 1, and a transaction of nothing
TxsSpend ==
    <<Transaction(<<>>, <<C3>>), Transaction(<<A1, B2>>, <<C2>>),
      Transaction(<<>>, <<>>)>>
\* a fee of 1 and a coinbase of 0
TxsFeeExceeds == <<Transaction(<<>>, <<>>), Transaction(<<A1>>, <<>>)>>
\* the same, followed by a transaction that creates value from nothing
TxsFeeExceedsThenInsufficient ==
    <<Transaction(<<>>, <<>>), Transaction(<<A1>>, <<>>),
      Transaction(<<>>, <<A1>>)>>
\* a first transaction with an input, followed by one that creates value
TxsBadCoinbase == <<Transaction(<<A1>>, <<>>), Transaction(<<>>, <<A1>>)>>
\* a spend of the output the block's own coinbase creates, for more than it
TxsSpendOwnOutput == <<Transaction(<<>>, <<C3>>), Transaction(<<C3>>, <<C3, C3>>)>>
\* value from nothing, followed by a spend of C3
TxsInsufficientThenInvalid ==
    <<Transaction(<<>>, <<>>), Transaction(<<>>, <<A1>>),
      Transaction(<<C3>>, <<>>)>>
\* A1 twice as the inputs of one transaction, which also creates A1 again,
\* and A1 once more as the input of the next transaction
TxsRepeatedInput ==
    <<Transaction(<<>>, <<C3>>), Transaction(<<A1, A1>>, <<A1, B1>>),
      Transaction(<<A1>>, <<>>)>>
\* outputs whose u64 sum is 2^64
TxsOverflow == <<Transaction(<<>>, <<>>), Transaction(<<A1>>, <<CMAX, C1>>)>>

\* a coinbase that creates A1 again, paid for by the fee of a spend of A1
TxsRespendCoinbase == <<Transaction(<<>>, <<A1>>), Transaction(<<A1>>, <<>>)>>
\* outputs whose u64 sum is 2^64, made of no inputs
TxsValueFromNothing ==
    <<Transaction(<<>>, <<>>), Transaction(<<>>, <<CMAX, C1>>)>>
TransactionLists ==
    {<<>>, TxsCoinbaseOnly, TxsSpend, TxsFeeExceeds, TxsFeeExceedsThenInsufficient,
     TxsBadCoinbase, TxsSpendOwnOutput, TxsInsufficientThenInvalid,
     TxsRepeatedInput, TxsOverflow, TxsRespendCoinbase, TxsValueFromNothing}

Timestamps == {U128(1), U128(2), U128(256)}

DIFFICULTY == <<255, 255, 255, 255, 255, 255, 255, 255,
                255, 255, 255, 255, 255, 255, 255, 255>>
IMPOSSIBLE_DIFFICULTY == U128_ZERO
HALF_DIFFICULTY == <<128, 0, 0, 0, 0, 0, 0, 0, 0, 0, 0, 0, 0, 0, 0, 0>>
Difficulties == {IMPOSSIBLE_DIFFICULTY, HALF_DIFFICULTY, DIFFICULTY}

Indexes(n) == {n, n + 1}

\* nothing, 32 zeros, the last block's stored hash and its recomputed digest
PreviousHashes(chain) ==
    {<<>>, Zeros(32)}
    \cup (IF chain = <<>> THEN {}
          ELSE {chain[Len(chain)].hash, hash(Block_bytes(chain[Len(chain)]))})

\* the header of a well-formed successor: the next index, the earliest of
\* Timestamps after the last block's, and the last block's stored hash
WellFormedHeader(chain, index, timestamp, previous_block_hash) ==
    /\ index = Len(chain)
    /\ IF chain = <<>>
       THEN /\ previous_block_hash = Zeros(32)
            /\ \A t \in Timestamps : ~Less(t, timestamp)
       ELSE /\ previous_block_hash = chain[Len(chain)].hash
            /\ Less(chain[Len(chain)].timestamp, timestamp)
            /\ \A t \in Timestamps :
                   Less(chain[Len(chain)].timestamp, t) => ~Less(t, timestamp)

\* The blocks callers prepare:
\*  - any header on a block without transactions, at DIFFICULTY;
\*  - a header that names no previous hash, on a block without transactions
\*    at IMPOSSIBLE_DIFFICULTY or on one whose first transaction is no
\*    coinbase at DIFFICULTY;
\*  - a well-formed header with any transactions at DIFFICULTY, or with no
\*    transactions at any difficulty;
\*  - a wrong index, on a block that is otherwise well formed or wrong in
\*    every other way too.
Prepared(chain, index, timestamp, previous_block_hash, transactions, difficulty) ==
    \/ /\ index = Len(chain)
       /\ transactions = <<>>
       /\ difficulty = DIFFICULTY
    \/ /\ index = Len(chain)
       /\ previous_block_hash = <<>>
       /\ \/ transactions = <<>> /\ difficulty = IMPOSSIBLE_DIFFICULTY
          \/ transactions = TxsBadCoinbase /\ difficulty = DIFFICULTY
    \/ /\ WellFormedHeader(chain, index, timestamp, previous_block_hash)
       /\ \/ difficulty = DIFFICULTY
          \/ transactions = <<>>
    \/ /\ index # Len(chain)
       /\ \/ /\ WellFormedHeader(chain, index - 1, timestamp, previous_block_hash)
             /\ transactions = <<>>
             /\ difficulty = DIFFICULTY
          \/ /\ previous_block_hash = <<>>
             /\ timestamp = U128(1)
             /\ transactions = TxsBadCoinbase
             /\ difficulty = IMPOSSIBLE_DIFFICULTY

\* No function has been handed arguments on its own, and none has returned.
NoArguments == [call |-> "none"]
NotReturned == [of |-> "nothing"]

Init ==
    /\ blocks = Blockchain_new.blocks
    /\ unspent_outputs = Blockchain_new.unspent_outputs
    /\ block = <<>>
    /\ result = "None"
    /\ arguments = NoArguments
    /\ answer = NotReturned
    /\ nonce_attempt = U64_ZERO

\* What the caller of update_with_block holds while it looks at the result:
\* the chain as it was and the block it handed over.
UpdateArguments(self, candidate) ==
    [call |-> "update_with_block",
     blocks |-> self.blocks,
     unspent_outputs |-> self.unspent_outputs,
     block |-> candidate]

\* What the caller of mine holds: the block as it was.
MineArguments(candidate) == [call |-> "mine", block |-> candidate]

\* The caller builds a block with Block::new.
NewBlock ==
    /\ block = <<>>
    /\ arguments = NoArguments
    /\ result # "Panic"
    /\ Len(blocks) < MaxBlocks
    /\ \E index \in Indexes(Len(blocks)), timestamp \in Timestamps,
          previous_block_hash \in PreviousHashes(blocks),
          transactions \in TransactionLists, difficulty \in Difficulties :
           /\ Prepared(blocks, index, timestamp, previous_block_hash,
                       transactions, difficulty)
           /\ block' = <<Block_new(index, timestamp, previous_block_hash,
                                   transactions, difficulty)>>
    /\ result' = "None"
    /\ UNCHANGED <<blocks, unspent_outputs, arguments, answer, nonce_attempt>>

\* The blocks callers mine: those with a well-formed header and no
\* transactions, a coinbase alone or a spend.
MinedLists == {<<>>, TxsCoinbaseOnly, TxsSpend}
WorthMining(chain, candidate) ==
    /\ WellFormedHeader(chain, candidate.index, candidate.timestamp,
                        candidate.previous_block_hash)
    /\ candidate.transactions \in MinedLists

\* The caller mines the block it built.
Mine ==
    /\ block # <<>>
    /\ block[1].hash = Zeros(32)
    /\ block[1].nonce = U64_ZERO
    /\ WorthMining(blocks, block[1])
    /\ block' = <<mine(block[1]).block>>
    /\ arguments' = MineArguments(block[1])
    /\ UNCHANGED <<blocks, unspent_outputs, result, answer, nonce_attempt>>

\* The caller hands its block to update_with_block.  Where the call adds
\* past the range of u64 the build decides: it panics with overflow checks
\* and goes on with the wrapped value without.
UpdateWithBlock ==
    /\ block # <<>>
    /\ \E call \in {update_with_block(
                        [blocks |-> blocks, unspent_outputs |-> unspent_outputs],
                        block[1])} :
           \/ /\ blocks' = call.blocks
              /\ unspent_outputs' = call.unspent_outputs
              /\ result' = call.result
           \/ /\ call.overflow
              /\ result' = "Panic"
              /\ UNCHANGED <<blocks, unspent_outputs>>
    /\ block' = <<>>
    /\ arguments' = UpdateArguments(
                         [blocks |-> blocks, unspent_outputs |-> unspent_outputs],
                         block[1])
    /\ UNCHANGED <<answer, nonce_attempt>>

\* The caller has looked at the result (is_ok, expect, assert_eq) and goes
\* on: the block it handed over is gone.  After a panic nothing goes on.
TakeResult ==
    /\ block = <<>>
    /\ arguments # NoArguments
    /\ result # "Panic"
    /\ arguments' = NoArguments
    /\ UNCHANGED <<blocks, unspent_outputs, block, result, answer, nonce_attempt>>

Next == NewBlock \/ Mine \/ UpdateWithBlock \/ TakeResult

Spec == Init /\ [][Next]_vars

(***************************************************************************)
(* The functions on bytes, each called on its own.                         *)
(***************************************************************************)
\* The bytes of a number, least significant first.
LittleEndian(data) == [i \in 1..Len(data) |-> data[Len(data) + 1 - i]]

\* 31 << 120 | 30 << 112 | ... | 16, the value of the bytes 16..31
INCREASING == [i \in 1..16 |-> 32 - i]

U128Inputs ==
    {U128_ZERO, U128(1), U128(258), HALF_DIFFICULTY,
     Add(HALF_DIFFICULTY, U128(1)).value, INCREASING,
     Sub(DIFFICULTY, U128(1)), DIFFICULTY}

\* The first 16 bytes of a digest.
Prefixes == {Zeros(16), [i \in 1..16 |-> 255], [i \in 1..16 |-> i - 1]}

CheckDifficultyArguments ==
    {[call |-> "check_difficulty",
      top |-> top,
      hash |-> prefix \o LittleEndian(top),
      difficulty |-> difficulty] :
         prefix \in Prefixes, top \in U128Inputs, difficulty \in U128Inputs}

U128BytesArguments ==
    {[call |-> "u128_bytes", data |-> data, prefix |-> prefix] :
         data \in U128Inputs, prefix \in Prefixes}

ALICE == <<65, 108, 105, 99, 101>>
BOB == <<66, 111, 98>>
ONE_TO_THIRTY_TWO == [i \in 1..32 |-> i]

\* The block of the test of bytes(), and blocks that differ from it in one
\* field or in several.
TestBlock ==
    Block_new(1, U128(2), ONE_TO_THIRTY_TWO,
              <<Transaction(<<Output(ALICE, U64(1))>>, <<Output(BOB, U64(2))>>)>>,
              U128(3))

BlockInputs ==
    {TestBlock,
     [TestBlock EXCEPT !.hash = ONE_TO_THIRTY_TWO],
     [TestBlock EXCEPT !.index = 2],
     [TestBlock EXCEPT !.timestamp = U128(3)],
     [TestBlock EXCEPT !.previous_block_hash = Zeros(32)],
     [TestBlock EXCEPT !.previous_block_hash = <<>>],
     [TestBlock EXCEPT !.nonce = U64(1)],
     [TestBlock EXCEPT !.nonce = U64(1), !.hash = ONE_TO_THIRTY_TWO],
     [TestBlock EXCEPT !.difficulty = U128(258)],
     [TestBlock EXCEPT !.transactions =
         <<Transaction(<<>>, <<Output(ALICE, U64(1)), Output(BOB, U64(2))>>)>>],
     [TestBlock EXCEPT !.transactions =
         <<Transaction(<<>>, <<Output(ALICE, U64(1))>>),
           Transaction(<<>>, <<Output(BOB, U64(2))>>)>>],
     [TestBlock EXCEPT !.transactions = <<>>],
     [TestBlock EXCEPT !.previous_block_hash = LittleEndian(U64(258)),
                       !.nonce = U64(3)],
     [TestBlock EXCEPT !.previous_block_hash = <<>>,
                       !.nonce = U64(258)],
     [TestBlock EXCEPT !.previous_block_hash = LittleEndian(U64(258)),
                       !.nonce = U64(3),
                       !.transactions = <<>>],
     [TestBlock EXCEPT !.previous_block_hash = <<>>,
                       !.nonce = U64(258),
                       !.transactions =
                           <<Transaction(<<>>, <<Output(<<>>, U64(3))>>)>>]}

BlockBytesArguments ==
    {[call |-> "Block::bytes", left |-> left, right |-> right] :
         left \in BlockInputs, right \in BlockInputs}

\* The transaction of the test of bytes(), and transactions over three
\* outputs in one order with the inputs ending at each place, and in
\* another order.
TestTransaction ==
    Transaction(
        <<Output(<<116, 101, 115, 116, 45, 114, 101, 99, 105, 112, 105, 101,
                   110, 116, 45, 97, 100, 100, 114, 101, 115, 115, 49>>, U64(1))>>,
        <<Output(<<116, 101, 115, 116, 45, 114, 101, 99, 105, 112, 105, 101,
                   110, 116, 45, 97, 100, 100, 114, 101, 115, 115, 50>>, U64(2))>>)

TransactionInputs ==
    {TestTransaction,
     Transaction(<<>>, <<>>),
     Transaction(<<>>, <<A1, B2, C3>>),
     Transaction(<<A1>>, <<B2, C3>>),
     Transaction(<<A1, B2>>, <<C3>>),
     Transaction(<<A1, B2, C3>>, <<>>),
     Transaction(<<B2>>, <<A1, C3>>),
     Transaction(<<A1>>, <<B2>>)}

TransactionBytesArguments ==
    {[call |-> "Transaction::bytes", left |-> left, right |-> right] :
         left \in TransactionInputs, right \in TransactionInputs}

InitFunctions ==
    /\ blocks = Blockchain_new.blocks
    /\ unspent_outputs = Blockchain_new.unspent_outputs
    /\ block = <<>>
    /\ result = "None"
    /\ arguments \in CheckDifficultyArguments \cup U128BytesArguments
                         \cup BlockBytesArguments \cup TransactionBytesArguments
    /\ answer = NotReturned
    /\ nonce_attempt = U64_ZERO

\* check_difficulty is called on a digest and a difficulty.
CheckDifficulty ==
    /\ arguments.call = "check_difficulty"
    /\ answer = NotReturned
    /\ answer' = [of |-> "check_difficulty",
                    value |-> check_difficulty(arguments.hash, arguments.difficulty)]
    /\ UNCHANGED <<blocks, unspent_outputs, block, result, arguments,
                   nonce_attempt>>

\* u128_bytes is called on a number.
U128Bytes ==
    /\ arguments.call = "u128_bytes"
    /\ answer = NotReturned
    /\ answer' = [of |-> "u128_bytes", value |-> u128_bytes(arguments.data)]
    /\ UNCHANGED <<blocks, unspent_outputs, block, result, arguments,
                   nonce_attempt>>

\* difficulty_bytes_as_u128 is called on 32 bytes that end with the bytes
\* u128_bytes returned.
DifficultyBytesAsU128 ==
    /\ answer.of = "u128_bytes"
    /\ answer' = [of |-> "difficulty_bytes_as_u128",
                    value |-> difficulty_bytes_as_u128(
                                  arguments.prefix \o answer.value)]
    /\ UNCHANGED <<blocks, unspent_outputs, block, result, arguments,
                   nonce_attempt>>

\* bytes() is called on two blocks.
BlockBytes ==
    /\ arguments.call = "Block::bytes"
    /\ answer = NotReturned
    /\ answer' = [of |-> "Block::bytes",
                    bytes |-> <<Block_bytes(arguments.left),
                                Block_bytes(arguments.right)>>]
    /\ UNCHANGED <<blocks, unspent_outputs, block, result, arguments,
                   nonce_attempt>>

\* hash() is called on the two blocks.
BlockHash ==
    /\ answer.of = "Block::bytes"
    /\ answer' = [of |-> "Block::hash",
                    bytes |-> answer.bytes,
                    digest |-> <<hash(Block_bytes(arguments.left)),
                                 hash(Block_bytes(arguments.right))>>]
    /\ UNCHANGED <<blocks, unspent_outputs, block, result, arguments,
                   nonce_attempt>>

\* bytes() is called on two transactions.
TransactionBytes ==
    /\ arguments.call = "Transaction::bytes"
    /\ answer = NotReturned
    /\ answer' = [of |-> "Transaction::bytes",
                    bytes |-> <<Transaction_bytes(arguments.left),
                                Transaction_bytes(arguments.right)>>]
    /\ UNCHANGED <<blocks, unspent_outputs, block, result, arguments,
                   nonce_attempt>>

\* hash() is called on the two transactions.
TransactionHash ==
    /\ answer.of = "Transaction::bytes"
    /\ answer' = [of |-> "Transaction::hash",
                    bytes |-> answer.bytes,
                    digest |-> <<hash(Transaction_bytes(arguments.left)),
                                 hash(Transaction_bytes(arguments.right))>>]
    /\ UNCHANGED <<blocks, unspent_outputs, block, result, arguments,
                   nonce_attempt>>

NextFunctions ==
    \/ CheckDifficulty
    \/ U128Bytes
    \/ DifficultyBytesAsU128
    \/ BlockBytes
    \/ BlockHash
    \/ TransactionBytes
    \/ TransactionHash

SpecFunctions == InitFunctions /\ [][NextFunctions]_vars

(***************************************************************************)
(* Block::mine, one turn of its loop at a time.                            *)
(***************************************************************************)
\* 2^125: one digest in eight is below it.
LOW_DIFFICULTY == <<32, 0, 0, 0, 0, 0, 0, 0, 0, 0, 0, 0, 0, 0, 0, 0>>

\* The blocks mine is called on: as Block::new leaves them, and with a nonce
\* and a hash left by an earlier call.
MineInputs ==
    {[Block_new(index, timestamp, Zeros(32), transactions, difficulty)
          EXCEPT !.nonce = held[1], !.hash = held[2]] :
         index \in {0, 1}, timestamp \in Timestamps,
         transactions \in {<<>>, TxsCoinbaseOnly},
         difficulty \in {IMPOSSIBLE_DIFFICULTY, LOW_DIFFICULTY,
                         HALF_DIFFICULTY, DIFFICULTY},
         held \in {<<U64_ZERO, Zeros(32)>>, <<U64(258), ONE_TO_THIRTY_TWO>>}}

\* The number of nonces at the end of the range from which the loop is
\* followed for difficulty 0.
MineTail == 3

\* Where the loop is taken up.  No digest is below difficulty 0, so for it
\* the loop comes to every nonce of the range with the hash as it was, and
\* it is taken up at the last nonces; otherwise at nonce 0.
MineStarts(b) ==
    IF b.difficulty = U128_ZERO
    THEN {Sub(U64_MAX, U64(k)) : k \in 1 .. MineTail}
    ELSE {U64_ZERO}

\* The block when the loop comes to nonce_attempt without having stored a
\* hash: it holds the nonce tried before.
MineReached(b, start) ==
    IF start = U64_ZERO THEN b ELSE [b EXCEPT !.nonce = Sub(start, U64_ONE)]

\* mine returns ().
MineReturned == [of |-> "Block::mine"]

InitMine ==
    /\ blocks = Blockchain_new.blocks
    /\ unspent_outputs = Blockchain_new.unspent_outputs
    /\ result = "None"
    /\ answer = NotReturned
    /\ \E b \in MineInputs :
           \E start \in MineStarts(b) :
               /\ arguments = [call |-> "Block::mine", block |-> b]
               /\ nonce_attempt = start
               /\ block = <<MineReached(b, start)>>

\* lines 165-172, one turn of the loop: the nonce goes into the block, the
\* block is hashed, and mine stores the digest and returns, or goes on with
\* the next nonce.
MineTurn ==
    /\ arguments.call = "Block::mine"
    /\ answer = NotReturned
    /\ nonce_attempt # U64_MAX
    /\ \E tried \in {[block[1] EXCEPT !.nonce = nonce_attempt]} :
           \E turn \in {mine_turn(tried, hash(Block_bytes(tried)))} :
               /\ block' = <<turn.block>>
               /\ \/ /\ turn.found
                     /\ answer' = MineReturned
                     /\ UNCHANGED nonce_attempt
                  \/ /\ ~turn.found
                     /\ nonce_attempt' = range_next(nonce_attempt)
                     /\ UNCHANGED answer
    /\ UNCHANGED <<blocks, unspent_outputs, result, arguments>>

\* lines 165 and 174: the range is at its end, u64::MAX, and mine returns.
MineGivesUp ==
    /\ arguments.call = "Block::mine"
    /\ answer = NotReturned
    /\ nonce_attempt = U64_MAX
    /\ answer' = MineReturned
    /\ UNCHANGED <<blocks, unspent_outputs, block, result, arguments,
                   nonce_attempt>>

NextMine == MineTurn \/ MineGivesUp

\* Weak fairness of MineTurn, WF_vars(MineTurn), with ENABLED <<MineTurn>>_vars
\* written out: a turn can be taken, and changes the state, exactly when
\* mine is running and the range is not at its end.
MineTurnFair ==
    \/ []<>~(/\ arguments.call = "Block::mine"
             /\ answer = NotReturned
             /\ nonce_attempt # U64_MAX)
    \/ []<><<MineTurn>>_vars

\* mine runs on the thread that called it, and nothing holds that thread
\* up: a turn that can be taken is taken, and so is the return.
SpecMine ==
    InitMine /\ [][NextMine]_vars /\ MineTurnFair /\ WF_vars(MineGivesUp)

(***************************************************************************)
(* Properties of the chain.  A step is a call of update_with_block when it *)
(* takes the prepared block; the block it takes is block[1] before the     *)
(* step, and what it returns is result after the step.  In the state the   *)
(* call leaves, arguments holds what the chain and the block were.         *)
(***************************************************************************)
Called == block # <<>> /\ block' = <<>>

\* update_with_block has returned and the caller has not gone on yet: the
\* chain is as the call left it, result is what it returned, and arguments
\* holds the chain and the block the call was given.
Returned == arguments.call = "update_with_block"

IsPrefix(s, t) == Len(s) <= Len(t) /\ SubSeq(t, 1, Len(s)) = s

\* C1: whenever update_with_block returns an Err variant, blocks and
\* unspent_outputs are exactly what they were before the call.
C1_ErrLeavesStateUnchanged ==
    (Returned /\ result \in BlockValidationErr)
       => (blocks = arguments.blocks /\ unspent_outputs = arguments.unspent_outputs)

\* An Err of the last check, after the loop has gathered what the block
\* spends and creates, on a chain that has blocks and unspent outputs.
C1_Witness ==
    /\ result = "FeeExceedsCoinbaseTransactionOutputValue"
    /\ blocks # <<>>
    /\ unspent_outputs # {}

\* C2: the chain is append-only: no step removes, reorders or alters a block
\* (the chain before a step is a prefix of the chain after it), and a call
\* that returns Ok leaves the old chain followed by exactly the candidate.
C2_AppendOnly ==
    [][/\ IsPrefix(blocks, blocks')
       /\ (Called /\ result' = "Ok") => blocks' = Append(blocks, block[1])
       /\ (Called /\ result' = "Ok") => Len(blocks') = Len(blocks) + 1]_vars

\* A call returned Ok on a chain that already had a block.
C2_Witness == result = "Ok" /\ Len(blocks) >= 2

\* C3: for every reachable chain and every position i, blocks[i].index == i
\* (positions count from 0 in the code, from 1 here).
C3_IndexIsPosition ==
    \A i \in 1..Len(blocks) : blocks[i].index = i - 1

\* A chain of several blocks, after a call refused a block for its index.
C3_Witness == Len(blocks) >= 2 /\ result = "MismatchedIndex"

\* C4: for every reachable chain and every i > 0, blocks[i].previous_block_hash
\* is the SHA-256 digest recomputed from the bytes of blocks[i-1], not merely
\* the stored hash field of blocks[i-1].
C4_PreviousHashIsRecomputedDigest ==
    \A i \in 2..Len(blocks) :
        blocks[i].previous_block_hash = hash(Block_bytes(blocks[i - 1]))

\* C5: for every reachable chain, blocks[0].previous_block_hash is 32 zero
\* bytes and for every i > 0 blocks[i].previous_block_hash is the stored hash
\* field of blocks[i-1].
C5_PreviousHashIsStoredHash ==
    /\ blocks # <<>> => blocks[1].previous_block_hash = Zeros(32)
    /\ \A i \in 2..Len(blocks) :
           blocks[i].previous_block_hash = blocks[i - 1].hash

\* A chain whose second block follows a mined block, so that the stored hash
\* it names is not the 32 zeros of a new block.
C5_Witness ==
    /\ Len(blocks) >= 2
    /\ blocks[1].hash # Zeros(32)
    /\ result = "Ok"

\* C6: for every reachable chain the timestamps are strictly increasing along
\* the chain (for all i < j, blocks[i].timestamp < blocks[j].timestamp), and
\* the timestamp of a genesis block is not constrained: no call on the empty
\* chain returns AchronologicalTimestamp.
C6_TimestampsIncrease ==
    /\ \A i, j \in 1..Len(blocks) :
           i < j => Less(blocks[i].timestamp, blocks[j].timestamp)
    /\ (Returned /\ arguments.blocks = <<>>) => result # "AchronologicalTimestamp"

\* A chain whose genesis block does not have the earliest timestamp, which
\* has grown, and which has refused a block for its timestamp.
C6_Witness ==
    /\ Len(blocks) >= 2
    /\ blocks[1].timestamp # U128(1)
    /\ result = "AchronologicalTimestamp"

\* C7: every block of a reachable chain satisfies proof-of-work on its
\* recomputed digest, with the nonce it was submitted with: the 16 most
\* significant bytes of SHA-256 of its bytes are below its difficulty.
C7_ProofOfWork ==
    \A i \in 1..Len(blocks) :
        check_difficulty(hash(Block_bytes(blocks[i])), blocks[i].difficulty)

\* A chain with a block that had to be mined: its difficulty is not the
\* one every digest meets, and its nonce is not the one it was created with.
C7_Witness ==
    \E i \in 1..Len(blocks) :
        blocks[i].difficulty = HALF_DIFFICULTY /\ blocks[i].nonce # U64_ZERO

\* The outputs the transactions of a chain take as inputs and the outputs
\* they create, one element for each use, in the order of the chain.
RECURSIVE TransactionsInputs(_)
TransactionsInputs(transactions) ==
    IF transactions = <<>> THEN <<>>
    ELSE Head(transactions).inputs \o TransactionsInputs(Tail(transactions))

RECURSIVE TransactionsOutputs(_)
TransactionsOutputs(transactions) ==
    IF transactions = <<>> THEN <<>>
    ELSE Head(transactions).outputs \o TransactionsOutputs(Tail(transactions))

RECURSIVE ChainInputs(_)
ChainInputs(chain) ==
    IF chain = <<>> THEN <<>>
    ELSE TransactionsInputs(Head(chain).transactions) \o ChainInputs(Tail(chain))

RECURSIVE ChainOutputs(_)
ChainOutputs(chain) ==
    IF chain = <<>> THEN <<>>
    ELSE TransactionsOutputs(Head(chain).transactions) \o ChainOutputs(Tail(chain))

Range(s) == {s[k] : k \in 1..Len(s)}

\* The pairs <<output, digest of the output>> of a set of outputs
Digests(outputs) == {<<o, hash(Output_bytes(o))>> : o \in outputs}

\* How many elements of a sequence of outputs have the digest d
Uses(outputs, digests, d) ==
    Cardinality({k \in 1..Len(outputs) : <<outputs[k], d>> \in digests})

NoDigestOverspent(consumed, created, digests) ==
    \A p \in digests : Uses(consumed, digests, p[2]) <= Uses(created, digests, p[2])

\* C8: any one output is never used as an input more than once: over every
\* sequence of accepted blocks, the number of times a digest is consumed as
\* an input (counting repeated inputs of one transaction and inputs of
\* different transactions of one block) never exceeds the number of times an
\* output with that digest was created.
C8_NoOutputSpentTwice ==
    NoDigestOverspent(ChainInputs(blocks), ChainOutputs(blocks),
                      Digests(Range(ChainInputs(blocks)) \cup Range(ChainOutputs(blocks))))

\* The checks of a candidate in the order of the claim: the index, the
\* proof-of-work, the genesis format or the timestamp and the previous hash,
\* the coinbase, then for each later transaction k its inputs before its
\* values, and last the fee.  A check is a pair <<error, k>>.
TransactionChecks(k) == <<<<"InvalidInput", k>>, <<"InsufficientInputValue", k>>>>

RECURSIVE TailChecks(_, _)
TailChecks(k, n) ==
    IF k > n THEN <<>> ELSE TransactionChecks(k) \o TailChecks(k + 1, n)

CheckOrder(candidate) ==
    <<<<"MismatchedIndex", 0>>, <<"InvalidHash", 0>>,
      <<"InvalidGenesisBlockFormat", 0>>, <<"AchronologicalTimestamp", 0>>,
      <<"MismatchedPreviousHash", 0>>, <<"InvalidCoinbaseTransaction", 0>>>>
    \o TailChecks(2, Len(candidate.transactions))
    \o <<<<"FeeExceedsCoinbaseTransactionOutputValue", 0>>>>

\* The fees of the transactions k..n of a candidate, added as u64 values
RECURSIVE Fees(_, _)
Fees(transactions, k) ==
    IF k > Len(transactions) THEN U64_ZERO
    ELSE Add(Sub(input_value(transactions[k]).value,
                 output_value(transactions[k]).value),
             Fees(transactions, k + 1)).value

\* Whether a candidate fails one check, whatever the other checks say
Fails(chain, unspent, candidate, check) ==
    CASE check[1] = "MismatchedIndex" -> candidate.index # Len(chain)
      [] check[1] = "InvalidHash" ->
             ~Less(difficulty_bytes_as_u128(hash(Block_bytes(candidate))),
                   candidate.difficulty)
      [] check[1] = "InvalidGenesisBlockFormat" ->
             chain = <<>> /\ candidate.previous_block_hash # Zeros(32)
      [] check[1] = "AchronologicalTimestamp" ->
             /\ chain # <<>>
             /\ ~Less(chain[Len(chain)].timestamp, candidate.timestamp)
      [] check[1] = "MismatchedPreviousHash" ->
             /\ chain # <<>>
             /\ candidate.previous_block_hash # chain[Len(chain)].hash
      [] check[1] = "InvalidCoinbaseTransaction" ->
             /\ candidate.transactions # <<>>
             /\ candidate.transactions[1].inputs # <<>>
      [] check[1] = "InvalidInput" ->
             ~(input_hashes(candidate.transactions[check[2]]) \subseteq unspent)
      [] check[1] = "InsufficientInputValue" ->
             Less(input_value(candidate.transactions[check[2]]).value,
                  output_value(candidate.transactions[check[2]]).value)
      [] check[1] = "FeeExceedsCoinbaseTransactionOutputValue" ->
             /\ candidate.transactions # <<>>
             /\ Less(output_value(candidate.transactions[1]).value,
                     Fees(candidate.transactions, 2))

RECURSIVE FirstFailure(_, _, _, _)
FirstFailure(chain, unspent, candidate, checks) ==
    IF checks = <<>> THEN "Ok"
    ELSE IF Fails(chain, unspent, candidate, Head(checks)) THEN Head(checks)[1]
    ELSE FirstFailure(chain, unspent, candidate, Tail(checks))

\* C9: update_with_block reports the error of the first failing check in the
\* fixed order: index, proof-of-work, then (genesis: zero previous hash |
\* non-genesis: timestamp, then previous hash), then the coinbase has no
\* inputs, then for each later transaction in list order InvalidInput before
\* InsufficientInputValue, and last the fee against the coinbase; a candidate
\* that violates several checks yields the error of the earliest one, and
\* Ok is returned only when no check fails.
C9_FirstFailingCheck ==
    (Returned /\ result # "Panic")
       => result = FirstFailure(arguments.blocks, arguments.unspent_outputs, arguments.block,
                                 CheckOrder(arguments.block))

\* A call has refused a block for the inputs of its first transaction on a
\* chain with blocks; the only such candidate also fails the values of its
\* second transaction (TxsBadCoinbase).
C9_Witness == result = "InvalidCoinbaseTransaction" /\ blocks # <<>>

\* The digests a candidate spends (inputs of the transactions after the
\* first) and creates (outputs of all its transactions)
Spent(candidate) ==
    UNION {input_hashes(candidate.transactions[k]) :
               k \in 2..Len(candidate.transactions)}

Created(candidate) ==
    UNION {output_hashes(candidate.transactions[k]) :
               k \in 1..Len(candidate.transactions)}

Committed(before, after, spent, created) ==
    /\ after = (before \ spent) \cup created
    /\ created \subseteq after
    /\ (spent \ created) \cap after = {}

\* C10: on Ok for a candidate with a non-empty transaction list, the new
\* unspent set is (old unspent_outputs minus spent) union created, with spent
\* the input digests of all transactions after the first and created the
\* output digests of all transactions; every created digest is in the set
\* afterwards and every spent digest that is not also created is absent.
C10_CommitOnOk ==
    (Returned /\ result = "Ok" /\ arguments.block.transactions # <<>>)
       => Committed(arguments.unspent_outputs, unspent_outputs,
                    Spent(arguments.block), Created(arguments.block))

\* A call returned Ok for a block that spends a digest it also creates.
C10_Witness ==
    /\ result = "Ok"
    /\ blocks # <<>>
    /\ blocks[Len(blocks)].transactions = TxsRepeatedInput

\* C11: update_with_block returns MismatchedIndex exactly when the index of
\* the candidate differs from the current number of blocks, whatever the
\* other fields of the candidate are.
C11_MismatchedIndexExactly ==
    Returned => (result = "MismatchedIndex" <=> arguments.block.index # Len(arguments.blocks))

\* A call has refused a block for its index on a chain of one block.
C11_Witness == result = "MismatchedIndex" /\ Len(blocks) = 1

\* The candidate with its stored hash field changed: to 32 zeros when it
\* holds the digest of the candidate's bytes, to that digest when not.
Restamped(candidate, digest) ==
    [candidate EXCEPT !.hash = IF @ = digest THEN Zeros(32) ELSE digest]

StoredHashIgnored(self, candidate, digest, returned) ==
    /\ (/\ candidate.index = Len(self.blocks)
        /\ ~Less(difficulty_bytes_as_u128(digest), candidate.difficulty))
           => returned = "InvalidHash"
    /\ returned = update_with_block(self, Restamped(candidate, digest)).result

\* C12: validation ignores the stored hash field of the candidate: with the
\* right index and a recomputed digest that fails the difficulty the result
\* is InvalidHash whatever the field holds, and the result is the one the
\* call returns for the same candidate with another stored hash, so that a
\* candidate whose stored hash is not its digest (an unmined block with 32
\* zeros) is accepted when all checks pass.
C12_StoredHashIgnored ==
    (Returned /\ result # "Panic")
       => StoredHashIgnored([blocks |-> arguments.blocks, unspent_outputs |-> arguments.unspent_outputs],
                            arguments.block, hash(Block_bytes(arguments.block)), result)

\* A call returned Ok for a block whose stored hash is not its digest.
C12_Witness ==
    /\ result = "Ok"
    /\ blocks # <<>>
    /\ blocks[Len(blocks)].hash = Zeros(32)
    /\ blocks[Len(blocks)].hash # hash(Block_bytes(blocks[Len(blocks)]))

\* C13: on an empty chain, a candidate with index 0 that passes proof-of-work
\* is rejected with InvalidGenesisBlockFormat whenever its previous hash is
\* anything other than exactly 32 zero bytes (the empty sequence included),
\* and is not rejected for its timestamp whatever that is.
C13_GenesisFormat ==
    (/\ Returned
     /\ arguments.blocks = <<>>
     /\ arguments.block.index = 0
     /\ check_difficulty(hash(Block_bytes(arguments.block)), arguments.block.difficulty))
       => /\ arguments.block.previous_block_hash # Zeros(32)
                => result = "InvalidGenesisBlockFormat"
          /\ result # "AchronologicalTimestamp"

\* A call on the empty chain has refused a block for its previous hash.
C13_Witness == result = "InvalidGenesisBlockFormat" /\ blocks = <<>>

\* A candidate passes the index and the proof-of-work check, digest being
\* the digest of its bytes.
PassesIndexAndWork(chain, candidate, digest) ==
    /\ candidate.index = Len(chain)
    /\ Less(difficulty_bytes_as_u128(digest), candidate.difficulty)

\* C14: on a non-empty chain, a candidate that passes the index and the
\* proof-of-work check and whose timestamp is less than or equal to the last
\* block's is rejected with AchronologicalTimestamp (equality fails), also
\* when its previous hash is wrong as well.
C14_Achronological ==
    (/\ Returned
     /\ arguments.blocks # <<>>
     /\ ~Less(arguments.blocks[Len(arguments.blocks)].timestamp, arguments.block.timestamp)
     /\ PassesIndexAndWork(arguments.blocks, arguments.block, hash(Block_bytes(arguments.block))))
       => result = "AchronologicalTimestamp"

\* A call has refused a block for its timestamp on a chain of one block.
C14_Witness == result = "AchronologicalTimestamp" /\ Len(blocks) = 1

\* C15: on a non-empty chain, a candidate that passes the index, the
\* proof-of-work and the timestamp check and whose previous hash differs
\* from the stored hash of the last block is rejected with
\* MismatchedPreviousHash.
C15_MismatchedPreviousHash ==
    (/\ Returned
     /\ arguments.blocks # <<>>
     /\ Less(arguments.blocks[Len(arguments.blocks)].timestamp, arguments.block.timestamp)
     /\ arguments.block.previous_block_hash # arguments.blocks[Len(arguments.blocks)].hash
     /\ PassesIndexAndWork(arguments.blocks, arguments.block, hash(Block_bytes(arguments.block))))
       => result = "MismatchedPreviousHash"

\* A call has refused a block for its previous hash after a mined block,
\* whose stored hash is not 32 zeros.
C15_Witness ==
    /\ result = "MismatchedPreviousHash"
    /\ blocks[Len(blocks)].hash # Zeros(32)

\* A candidate passes all the checks of its header.
PassesHeader(chain, candidate, digest) ==
    /\ PassesIndexAndWork(chain, candidate, digest)
    /\ chain = <<>> => candidate.previous_block_hash = Zeros(32)
    /\ chain # <<>> =>
           /\ Less(chain[Len(chain)].timestamp, candidate.timestamp)
           /\ candidate.previous_block_hash = chain[Len(chain)].hash

\* C16: a candidate that passes the header checks and whose first
\* transaction has at least one input is rejected with
\* InvalidCoinbaseTransaction, in genesis and non-genesis position alike and
\* whatever the remaining transactions are; so the first transaction of
\* every block of the chain that has transactions has no inputs.
C16_CoinbaseHasNoInputs ==
    /\ (/\ Returned
        /\ arguments.block.transactions # <<>>
        /\ arguments.block.transactions[1].inputs # <<>>
        /\ PassesHeader(arguments.blocks, arguments.block, hash(Block_bytes(arguments.block))))
          => result = "InvalidCoinbaseTransaction"
    /\ \A i \in 1..Len(blocks) :
           blocks[i].transactions # <<>>
               => blocks[i].transactions[1].inputs = <<>>

\* A call on the empty chain has refused a block for the inputs of its
\* first transaction.
C16_Witness == result = "InvalidCoinbaseTransaction" /\ blocks = <<>>

\* The two checks of a transaction that is not the first of its block, on
\* the unspent set as it was before the call and on the u64 values that
\* input_value() and output_value() return.
InputsAvailable(unspent, transaction) ==
    input_hashes(transaction) \subseteq unspent

Overspends(transaction) ==
    Less(input_value(transaction).value, output_value(transaction).value)

\* The position of the first transaction from k on that fails one of the
\* two checks, 0 when there is none.
RECURSIVE FirstOffender(_, _, _)
FirstOffender(unspent, transactions, k) ==
    IF k > Len(transactions) THEN 0
    ELSE IF ~InputsAvailable(unspent, transactions[k]) \/ Overspends(transactions[k])
    THEN k
    ELSE FirstOffender(unspent, transactions, k + 1)

\* A candidate passes the header checks and the check of its coinbase.
PassesCoinbase(chain, candidate, digest) ==
    /\ candidate.transactions # <<>>
    /\ candidate.transactions[1].inputs = <<>>
    /\ PassesHeader(chain, candidate, digest)

InputsJudgedBeforeCall(chain, unspent, candidate, digest, returned, k) ==
    /\ returned = "Ok" => Spent(candidate) \subseteq unspent
    /\ (/\ PassesCoinbase(chain, candidate, digest)
        /\ k > 0
        /\ ~InputsAvailable(unspent, candidate.transactions[k]))
           => returned = "InvalidInput"

\* C17: the inputs are judged against the unspent set as it was before the
\* call: every input digest of every non-first transaction of an accepted
\* block was in unspent_outputs before that block, and a candidate whose
\* first failing transaction uses an input that was not (an output that an
\* earlier transaction of the same block creates, for one) is rejected with
\* InvalidInput.
C17_InputsJudgedBeforeCall ==
    (Returned /\ result # "Panic")
       => InputsJudgedBeforeCall(arguments.blocks, arguments.unspent_outputs, arguments.block,
                                 hash(Block_bytes(arguments.block)), result,
                                 FirstOffender(arguments.unspent_outputs,
                                               arguments.block.transactions, 2))

\* A call has refused a block for its inputs on a chain that has unspent
\* outputs.
C17_Witness == result = "InvalidInput" /\ unspent_outputs # {}

\* The sum of the values of some outputs in integers without a bound: nine
\* digits hold the sum of up to 256 values of eight.
RECURSIVE ExactSum(_)
ExactSum(outputs) ==
    IF outputs = <<>> THEN <<0>> \o U64_ZERO
    ELSE Add(<<0>> \o Head(outputs).value, ExactSum(Tail(outputs))).value

ExactOverspends(transaction) ==
    Less(ExactSum(transaction.inputs), ExactSum(transaction.outputs))

\* The position of the first transaction from k on that uses an input that
\* is not unspent or whose outputs are worth more than its inputs, 0 when
\* there is none.
RECURSIVE ExactFirstOffender(_, _, _)
ExactFirstOffender(unspent, transactions, k) ==
    IF k > Len(transactions) THEN 0
    ELSE IF ~InputsAvailable(unspent, transactions[k])
            \/ ExactOverspends(transactions[k])
    THEN k
    ELSE ExactFirstOffender(unspent, transactions, k + 1)

ExactValuesChecked(chain, unspent, candidate, digest, returned, k) ==
    /\ (/\ PassesCoinbase(chain, candidate, digest)
        /\ k > 0
        /\ InputsAvailable(unspent, candidate.transactions[k]))
           => returned = "InsufficientInputValue"
    /\ returned = "InsufficientInputValue"
           => k > 0 /\ ExactOverspends(candidate.transactions[k])

\* C18: in every non-first transaction of every block of the chain the
\* outputs are worth no more than the inputs, the worth being the sum of
\* the values; a candidate whose first failing transaction has available
\* inputs and outputs worth more than its inputs is rejected with
\* InsufficientInputValue, and no candidate is rejected so for a
\* transaction with equal values.
C18_OutputValueAtMostInputValue ==
    /\ \A i \in 1..Len(blocks) :
           \A k \in 2..Len(blocks[i].transactions) :
               ~ExactOverspends(blocks[i].transactions[k])
    /\ Returned
           => ExactValuesChecked(arguments.blocks, arguments.unspent_outputs,
                                 arguments.block,
                                 hash(Block_bytes(arguments.block)), result,
                                 ExactFirstOffender(arguments.unspent_outputs,
                                                    arguments.block.transactions, 2))

FeeChecked(chain, unspent, candidate, digest, returned, k) ==
    /\ (/\ PassesCoinbase(chain, candidate, digest)
        /\ k = 0
        /\ Less(output_value(candidate.transactions[1]).value,
                Fees(candidate.transactions, 2)))
           => returned = "FeeExceedsCoinbaseTransactionOutputValue"
    /\ returned = "FeeExceedsCoinbaseTransactionOutputValue"
           => /\ Len(candidate.transactions) > 1
              /\ Less(output_value(candidate.transactions[1]).value,
                      Fees(candidate.transactions, 2))

\* C19: for every block of the chain that has transactions, the output value
\* of the coinbase is at least total_fee, the sum over the other
\* transactions of input_value - output_value; a candidate that passes all
\* earlier checks and whose coinbase output value is below total_fee is
\* rejected with FeeExceedsCoinbaseTransactionOutputValue, and a block of a
\* coinbase alone is never rejected so.
C19_CoinbaseCoversFee ==
    /\ \A i \in 1..Len(blocks) :
           blocks[i].transactions # <<>>
               => ~Less(output_value(blocks[i].transactions[1]).value,
                        Fees(blocks[i].transactions, 2))
    /\ (Returned /\ result # "Panic")
           => FeeChecked(arguments.blocks, arguments.unspent_outputs, arguments.block,
                         hash(Block_bytes(arguments.block)), result,
                         FirstOffender(arguments.unspent_outputs,
                                       arguments.block.transactions, 2))

\* A chain whose last block pays a fee that its coinbase covers, after a
\* call that refused a block for its fee.
C19_Witness ==
    /\ result = "FeeExceedsCoinbaseTransactionOutputValue"
    /\ blocks[Len(blocks)].transactions = TxsRepeatedInput

\* C20: a candidate with an empty transaction list that passes the index,
\* the proof-of-work and the linkage and chronology checks is accepted
\* without any coinbase, and the append leaves unspent_outputs unchanged.
C20_EmptyTransactionList ==
    (/\ Returned
     /\ arguments.block.transactions = <<>>
     /\ PassesHeader(arguments.blocks, arguments.block, hash(Block_bytes(arguments.block))))
       => /\ result = "Ok"
          /\ blocks = Append(arguments.blocks, arguments.block)
          /\ unspent_outputs = arguments.unspent_outputs

\* A call returned Ok for a block without transactions on a chain that has
\* unspent outputs.
C20_Witness ==
    /\ result = "Ok"
    /\ unspent_outputs # {}
    /\ blocks[Len(blocks)].transactions = <<>>

(***************************************************************************)
(* Block::mine                                                             *)
(***************************************************************************)
\* A step in which the caller's block is mined.
Mined == block # <<>> /\ block' # <<>>

\* mine has returned: block[1] is the block as mine left it and arguments
\* holds the block as it was.
HasMined == arguments.call = "mine"

\* C21 as it stands: after Block::mine returns, the stored hash is the
\* SHA-256 digest of the block's preimage, with the nonce mine left in the
\* block, and its top 16 bytes read as a number are below the difficulty.
C21_MinedHashSatisfiesDifficulty ==
    HasMined =>
       /\ block[1].hash = hash(Block_bytes(block[1]))
       /\ check_difficulty(block[1].hash, block[1].difficulty)

\* C21 amended: after Block::mine returns, either the stored hash is the
\* digest of the block's preimage with the nonce mine left in it and is
\* below the difficulty, or the digest under the nonce mine left is not
\* below the difficulty and the stored hash is what it was before mine.
C21_MinedHashSatisfiesDifficultyOrUntouched ==
    HasMined =>
       \E h \in {hash(Block_bytes(block[1]))} :
           IF check_difficulty(h, block[1].difficulty)
           THEN block[1].hash = h
           ELSE block[1].hash = arguments.block.hash

\* A block that mine left with a nonce above 0 and a hash it stored.
C21_Witness ==
    /\ block # <<>>
    /\ block[1].nonce # U64_ZERO
    /\ block[1].hash # Zeros(32)
    /\ check_difficulty(block[1].hash, block[1].difficulty)

\* The nonces that the loop of mine tries before nonce, a nonce below 65536.
NoncesBelow(nonce) == {U64(k) : k \in 0 .. (nonce[7] * 256 + nonce[8]) - 1}

\* The block with another nonce and another hash in it than Block::new sets.
Stale(b) == [b EXCEPT !.nonce = U64_MAX, !.hash = <<1>> \o Zeros(31)]

\* The nonce that mine leaves is the smallest whose digest is below the
\* difficulty, when mine stored a hash.
SmallestNonce ==
    check_difficulty(block[1].hash, block[1].difficulty) =>
        /\ SubSeq(block[1].nonce, 1, 6) = Zeros(6)
        /\ \A n \in NoncesBelow(block[1].nonce) :
               ~check_difficulty(
                    hash(Block_bytes([arguments.block EXCEPT !.nonce = n])),
                    arguments.block.difficulty)

\* C22 as it stands: mine tries the nonces in increasing order from 0 and
\* stops at the smallest one whose digest is below the difficulty, and a
\* block equal in every field but nonce and hash is mined to the same nonce
\* and the same hash.
C22_SmallestNonceSameResult ==
    HasMined =>
       /\ SmallestNonce
       /\ \E again \in {mine(Stale(arguments.block)).block} :
              /\ again.nonce = block[1].nonce
              /\ again.hash = block[1].hash

\* C22 amended: mine stops at the smallest nonce whose digest is below the
\* difficulty, and a block equal in every field but nonce and hash is mined
\* to the same nonce, and to the same hash when a nonce was found.
C22_SmallestNonceSameResultWhenFound ==
    HasMined =>
       /\ SmallestNonce
       /\ \E again \in {mine(Stale(arguments.block)).block} :
              /\ again.nonce = block[1].nonce
              /\ check_difficulty(block[1].hash, block[1].difficulty)
                     => again.hash = block[1].hash

\* A block that mine left at nonce 2 or above: two smaller nonces failed.
C22_Witness ==
    /\ block # <<>>
    /\ Less(U64_ONE, block[1].nonce)
    /\ check_difficulty(block[1].hash, block[1].difficulty)

\* C23: when mine gives up, every nonce of u64 has been tried.  The nonce
\* under trial is stored in the block before its digest is tested, so after
\* giving up the block holds the last nonce tried, and that would be 2^64-1.
C23_GivesUpAfterLastNonce ==
    HasMined =>
       \E h \in {hash(Block_bytes(block[1]))} :
           ~check_difficulty(h, block[1].difficulty)
               => block[1].nonce = U64_MAX

\* mine is running: it has been called and has not returned.
Mining == arguments.call = "Block::mine" /\ answer = NotReturned

\* mine has returned from the loop that is followed turn by turn.
MineHasReturned == arguments.call = "Block::mine" /\ answer = MineReturned

\* mine has returned at the end of the range: no nonce it tried passed.
NoNonceFound == MineHasReturned /\ nonce_attempt = U64_MAX

\* A turn of the loop ends mine or moves it to a greater nonce, never back
\* and never around the end of u64.
MineAdvances ==
    Mining => (MineHasReturned' \/ Less(nonce_attempt, nonce_attempt'))

\* C24: mine always comes to its return: every turn of its loop ends it or
\* takes it to a greater nonce, and at the end of the range it returns.
\* For difficulty 0 it returns only there.  When it returns there, no
\* nonce having passed, the stored hash is the one the block held when mine
\* was called, and the caller is told nothing: mine returns () as it does
\* when a nonce passes, and no result or panic is left.  The block is then
\* the one mine gives when it is taken in one step.
C24_TerminatesAndGivesUpSilently ==
    /\ Mining ~> MineHasReturned
    /\ [][MineAdvances]_vars
    /\ [](MineHasReturned =>
             /\ arguments.block.difficulty = U128_ZERO => NoNonceFound
             /\ block[1] = mine(arguments.block).block
             /\ NoNonceFound =>
                    /\ block[1].hash = arguments.block.hash
                    /\ block[1].nonce = Sub(U64_MAX, U64_ONE)
                    /\ result = "None")

\* mine has returned at the end of the range for a block of difficulty 0
\* that held a hash of its own: the hash is still in it.
C24_Witness ==
    /\ NoNonceFound
    /\ block[1].difficulty = U128_ZERO
    /\ block[1].nonce = Sub(U64_MAX, U64_ONE)
    /\ block[1].hash = ONE_TO_THIRTY_TWO

\* C25: mine changes only nonce and hash; index, timestamp,
\* previous_block_hash, transactions and difficulty are after mine what they
\* were before, whether or not a nonce was found.
C25_MineChangesOnlyNonceAndHash ==
    HasMined =>
       /\ block[1].index = arguments.block.index
       /\ block[1].timestamp = arguments.block.timestamp
       /\ block[1].previous_block_hash = arguments.block.previous_block_hash
       /\ block[1].transactions = arguments.block.transactions
       /\ block[1].difficulty = arguments.block.difficulty

\* A mined block with transactions and a previous block's hash in it.
C25_Witness ==
    /\ block # <<>>
    /\ block[1].hash # Zeros(32)
    /\ block[1].transactions # <<>>
    /\ block[1].previous_block_hash # <<>>

(***************************************************************************)
(* check_difficulty                                                        *)
(***************************************************************************)
\* Numbers below 65536 that are among the arguments.
SmallNumbers == {0, 1, 258}

\* C26: check_difficulty(hash, d) holds exactly when the number in the last
\* 16 bytes of the hash is below d: not when the two are equal, for no hash
\* when d = 0, and, when d = 2^128-1, for every hash whose number is not
\* 2^128-1 itself.
C26_CheckDifficultyIsStrictlyLess ==
    answer.of = "check_difficulty" =>
        /\ answer.value <=> Less(arguments.top, arguments.difficulty)
        /\ \A n \in SmallNumbers, d \in SmallNumbers :
               (arguments.top = U128(n) /\ arguments.difficulty = U128(d))
                   => (answer.value <=> n < d)
        /\ arguments.top = arguments.difficulty => ~answer.value
        /\ arguments.difficulty = U128_ZERO => ~answer.value
        /\ arguments.difficulty = DIFFICULTY
               => (answer.value <=> arguments.top # DIFFICULTY)

\* check_difficulty has refused a hash whose number equals a difficulty
\* above 0.
C26_Witness ==
    /\ answer.of = "check_difficulty"
    /\ arguments.top = arguments.difficulty
    /\ arguments.difficulty # U128_ZERO
    /\ ~answer.value

(***************************************************************************)
(* Identical outputs                                                       *)
(***************************************************************************)
\* The output was made more than once on the chain.
CreatedTwice(chain, o) ==
    Cardinality({k \in 1 .. Len(ChainOutputs(chain)) :
                     ChainOutputs(chain)[k] = o}) >= 2

\* A block of the chain has the output among its inputs, and neither that
\* block nor a later one makes the output again.
SpentSinceCreated(chain, o) ==
    \E i \in 1 .. Len(chain) :
        /\ o \in Range(TransactionsInputs(chain[i].transactions))
        /\ \A j \in i .. Len(chain) :
               o \notin Range(TransactionsOutputs(chain[j].transactions))

SpentOutputGone(chain, unspent, candidate, digest, returned, k) ==
    \A o \in Range(ChainOutputs(chain)) :
        SpentSinceCreated(chain, o) =>
            /\ hash(Output_bytes(o)) \notin unspent
            /\ (/\ PassesCoinbase(chain, candidate, digest)
                /\ k > 0
                /\ o \in Range(candidate.transactions[k].inputs))
                   => returned = "InvalidInput"

\* C27: outputs equal in address and value have one digest in
\* unspent_outputs: once an accepted block has spent an output that no
\* block has made again since, its digest is out of the set, however many
\* times the output had been made, and a candidate whose first failing
\* transaction spends it is refused with InvalidInput.
C27_IdenticalOutputsSpentOnce ==
    Returned
       => SpentOutputGone(arguments.blocks, arguments.unspent_outputs, arguments.block,
                          hash(Block_bytes(arguments.block)), result,
                          FirstOffender(arguments.unspent_outputs,
                                        arguments.block.transactions, 2))

\* A call has refused a block for its inputs on a chain that made an output
\* twice and then spent it.
C27_Witness ==
    /\ result = "InvalidInput"
    /\ \E o \in Range(ChainOutputs(blocks)) :
           CreatedTwice(blocks, o) /\ SpentSinceCreated(blocks, o)

(***************************************************************************)
(* The functions on bytes                                                  *)
(***************************************************************************)
\* C28: difficulty_bytes_as_u128 reads the last 16 of 32 bytes as a
\* little-endian number: of any 16 bytes followed by u128_bytes(x) it
\* returns x.
C28_DifficultyBytesRoundTrip ==
    answer.of = "difficulty_bytes_as_u128" => answer.value = arguments.data

\* The round trip has been made for a number whose bytes all differ, after
\* a prefix that is not zero.
C28_Witness ==
    /\ answer.of = "difficulty_bytes_as_u128"
    /\ arguments.data = INCREASING
    /\ arguments.prefix # Zeros(16)
    /\ answer.value = INCREASING

\* The bytes the test of Block::bytes expects of its block.
TestBlockBytes ==
    <<1, 0, 0, 0>>
    \o <<2, 0, 0, 0, 0, 0, 0, 0, 0, 0, 0, 0, 0, 0, 0, 0>>
    \o ONE_TO_THIRTY_TWO
    \o <<0, 0, 0, 0, 0, 0, 0, 0>>
    \o <<65, 108, 105, 99, 101, 1, 0, 0, 0, 0, 0, 0, 0>>
    \o <<66, 111, 98, 2, 0, 0, 0, 0, 0, 0, 0>>
    \o <<3, 0, 0, 0, 0, 0, 0, 0, 0, 0, 0, 0, 0, 0, 0, 0>>

\* Two blocks are equal in every field but hash.
SameButHash(a, b) == [a EXCEPT !.hash = b.hash] = b

\* Two blocks have the same transactions and differ in previous_block_hash
\* or in nonce, in one of them or in both.
DifferBeforeTransactions(a, b) ==
    /\ a.transactions = b.transactions
    /\ \/ a.previous_block_hash # b.previous_block_hash
       \/ a.nonce # b.nonce

\* Two blocks differ in a field that has a fixed width and a fixed place
\* from the start or from the end of the bytes.
DifferAtFixedPlace(a, b) ==
    \/ a.index # b.index
    \/ a.timestamp # b.timestamp
    \/ a.difficulty # b.difficulty

HashFieldLeftOut ==
    /\ arguments.left = TestBlock => answer.bytes[1] = TestBlockBytes
    /\ SameButHash(arguments.left, arguments.right)
           => /\ answer.bytes[1] = answer.bytes[2]
              /\ answer.digest[1] = answer.digest[2]

\* C29 as it stands: the bytes of a block are index, timestamp,
\* previous_block_hash, nonce, the transactions' bytes in order and
\* difficulty, without the stored hash: blocks that differ only in hash have
\* the same bytes and the same digest, and blocks that differ in another
\* field have different bytes.
C29_BlockBytesTellBlocksApart ==
    answer.of = "Block::hash" =>
        /\ HashFieldLeftOut
        /\ ~SameButHash(arguments.left, arguments.right)
               => answer.bytes[1] # answer.bytes[2]

\* C29 amended: blocks that differ only in hash have the same bytes and
\* the same digest; blocks that differ in index, timestamp or difficulty
\* have different bytes, whatever their other fields; and blocks that have
\* the same transactions and differ in previous_block_hash or nonce have
\* different bytes.  So blocks that are told apart by a field other than
\* hash have the same bytes only when their transactions differ.
C29_BlockBytesLeaveOutHash ==
    answer.of = "Block::hash" =>
        /\ HashFieldLeftOut
        /\ DifferAtFixedPlace(arguments.left, arguments.right)
               => answer.bytes[1] # answer.bytes[2]
        /\ DifferBeforeTransactions(arguments.left, arguments.right)
               => answer.bytes[1] # answer.bytes[2]
        /\ (/\ ~SameButHash(arguments.left, arguments.right)
            /\ answer.bytes[1] = answer.bytes[2])
               => arguments.left.transactions # arguments.right.transactions

\* bytes() and hash() have been called on two blocks with the same
\* transactions of which one has in previous_block_hash the eight bytes
\* that the other has in nonce: their bytes differ.  The two blocks differ
\* in hash as well.
C29_Witness ==
    /\ answer.of = "Block::hash"
    /\ arguments.left.transactions = arguments.right.transactions
    /\ arguments.left.previous_block_hash = u64_bytes(arguments.right.nonce)
    /\ arguments.left.nonce # arguments.right.nonce
    /\ answer.bytes[1] # answer.bytes[2]
    /\ answer.digest[1] # answer.digest[2]

\* The bytes the test of Transaction::bytes expects of its transaction.
TestTransactionBytes ==
    <<116, 101, 115, 116, 45, 114, 101, 99, 105, 112, 105, 101, 110, 116, 45,
      97, 100, 100, 114, 101, 115, 115, 49, 1, 0, 0, 0, 0, 0, 0, 0,
      116, 101, 115, 116, 45, 114, 101, 99, 105, 112, 105, 101, 110, 116, 45,
      97, 100, 100, 114, 101, 115, 115, 50, 2, 0, 0, 0, 0, 0, 0, 0>>

\* Two transactions have the same outputs in the same order when the inputs
\* are followed by the outputs.
SameOutputSequence(a, b) == a.inputs \o a.outputs = b.inputs \o b.outputs

\* C30: the bytes of a transaction are the bytes of its inputs and then of
\* its outputs, with nothing between them and no count: transactions with
\* the same sequence of outputs overall, divided otherwise into inputs and
\* outputs, have the same bytes and the same digest.
C30_TransactionBytesHideTheSplit ==
    answer.of = "Transaction::hash" =>
        /\ arguments.left = TestTransaction => answer.bytes[1] = TestTransactionBytes
        /\ SameOutputSequence(arguments.left, arguments.right)
               => /\ answer.bytes[1] = answer.bytes[2]
                  /\ answer.digest[1] = answer.digest[2]

\* bytes() and hash() have been called on two transactions that divide one
\* sequence of outputs in two ways.
C30_Witness ==
    /\ answer.of = "Transaction::hash"
    /\ arguments.left # arguments.right
    /\ arguments.left.inputs # <<>>
    /\ arguments.right.outputs # <<>>
    /\ SameOutputSequence(arguments.left, arguments.right)
    /\ answer.digest[1] = answer.digest[2]

(***************************************************************************)
(* Arithmetic                                                              *)
(***************************************************************************)
ExactOutcome(chain, unspent, candidate, digest, returned, k) ==
    PassesCoinbase(chain, candidate, digest) =>
        /\ returned # "Panic"
        /\ (k > 0 /\ InputsAvailable(unspent, candidate.transactions[k]))
               => returned = "InsufficientInputValue"

\* C31: the sums of values and of fees in update_with_block do not wrap
\* around, so that a call ends as it would with integers without a bound:
\* it does not panic, and a block whose first failing transaction has
\* outputs worth more than its inputs is refused with
\* InsufficientInputValue.
C31_ExactArithmetic ==
    Returned =>
       ExactOutcome(arguments.blocks, arguments.unspent_outputs, arguments.block,
                    hash(Block_bytes(arguments.block)), result,
                    ExactFirstOffender(arguments.unspent_outputs,
                                       arguments.block.transactions, 2))

(***************************************************************************)
(* Mined blocks                                                            *)
(***************************************************************************)
\* mine found a nonce for the block: the stored hash is the digest of the
\* block's bytes and is below the difficulty.
MinedBlock(b, digest) == b.hash = digest /\ check_difficulty(digest, b.difficulty)

\* The candidate follows the last block of the chain, which was mined, and
\* has no transactions.
Successor(chain, candidate) ==
    /\ chain # <<>>
    /\ candidate.index = Len(chain)
    /\ candidate.transactions = <<>>
    /\ candidate.previous_block_hash = chain[Len(chain)].hash
    /\ Less(chain[Len(chain)].timestamp, candidate.timestamp)
    /\ MinedBlock(chain[Len(chain)], hash(Block_bytes(chain[Len(chain)])))

MinedBlockPasses(chain, candidate, digest, returned) ==
    /\ MinedBlock(candidate, digest) => returned # "InvalidHash"
    /\ (check_difficulty(digest, candidate.difficulty) /\ Successor(chain, candidate))
           => returned = "Ok"

\* C32: a block for which mine found a nonce is never refused with
\* InvalidHash, and the chain goes on after a mined block: a candidate with
\* the next index, a later timestamp, the mined block's stored hash as its
\* previous hash, a nonce that satisfies its difficulty and no transactions
\* is accepted.
C32_MinedBlockExtendsChain ==
    Returned =>
       MinedBlockPasses(arguments.blocks, arguments.block, hash(Block_bytes(arguments.block)),
                        result)

\* A mined block without transactions has been accepted after a mined
\* block.
C32_Witness ==
    /\ result = "Ok"
    /\ Len(blocks) >= 2
    /\ blocks[Len(blocks)].transactions = <<>>
    /\ blocks[Len(blocks)].hash # Zeros(32)
    /\ blocks[Len(blocks)].previous_block_hash = blocks[Len(blocks) - 1].hash
    /\ blocks[Len(blocks) - 1].hash # Zeros(32)

(***************************************************************************)
(* Value                                                                   *)
(***************************************************************************)
\* The outputs of a sequence, each once.
RECURSIVE Distinct(_)
Distinct(outputs) ==
    IF outputs = <<>> THEN <<>>
    ELSE IF Head(outputs) \in Range(Tail(outputs)) THEN Distinct(Tail(outputs))
    ELSE <<Head(outputs)>> \o Distinct(Tail(outputs))

\* C33: in an accepted block, the inputs of the transactions after the
\* first are worth no more in total than the distinct unspent outputs that
\* the block takes out of unspent_outputs: an input named twice, in one
\* transaction or in two, is not counted twice.
C33_InputValueBackedByUnspent ==
    (Returned /\ result = "Ok") =>
       \E inputs \in {TransactionsInputs(arguments.block.transactions)} :
           ~Less(ExactSum(Distinct(inputs)), ExactSum(inputs))

(***************************************************************************)
(* Where the unspent digests come from                                     *)
(***************************************************************************)
\* Every unspent digest is the digest of an output of a block of the chain.
UnspentFromChain(chain, unspent) ==
    unspent \subseteq {hash(Output_bytes(o)) : o \in Range(ChainOutputs(chain))}

\* C34: every digest in unspent_outputs is the digest of an output of a
\* transaction of a block of the chain, so that the set of a new chain is
\* empty, and the set changes only in a call that returns Ok for a block
\* with at least one transaction.
C34_UnspentComesFromChain ==
    /\ [](/\ UnspentFromChain(blocks, unspent_outputs)
          /\ blocks = <<>> => unspent_outputs = {})
    /\ [][unspent_outputs' # unspent_outputs =>
              /\ Called
              /\ result' = "Ok"
              /\ block[1].transactions # <<>>
              /\ blocks' = Append(blocks, block[1])]_vars

\* A chain of two blocks whose second block has changed the unspent set
\* and left digests of both blocks in it.
C34_Witness ==
    /\ Len(blocks) = 2
    /\ result = "Ok"
    /\ unspent_outputs # {}
    /\ ~UnspentFromChain(<<blocks[1]>>, unspent_outputs)
    /\ ~UnspentFromChain(<<blocks[2]>>, unspent_outputs)

(***************************************************************************)
(* Outputs spent and made again                                            *)
(***************************************************************************)
\* C35: when an accepted block spends a digest and creates an output with
\* the same digest, in its coinbase or in another transaction, the digest
\* is in unspent_outputs after the call: the spent digests are taken out
\* before the created ones are put in.
C35_RespentDigestStays ==
    (Returned /\ result = "Ok" /\ arguments.block.transactions # <<>>)
       => (Spent(arguments.block) \cap Created(arguments.block)) \subseteq unspent_outputs

\* A call has accepted a block whose coinbase creates the output that its
\* second transaction spends, and the digest is still unspent.
C35_Witness ==
    /\ result = "Ok"
    /\ blocks # <<>>
    /\ blocks[Len(blocks)].transactions = TxsRespendCoinbase
    /\ hash(Output_bytes(A1)) \in unspent_outputs

(***************************************************************************)
(* The errors of linkage                                                   *)
(***************************************************************************)
\* C36: InvalidGenesisBlockFormat is returned only on an empty chain,
\* AchronologicalTimestamp and MismatchedPreviousHash only on a chain that
\* has a block: an empty chain does not compare the candidate with a
\* previous block.
C36_LinkageErrorsByPosition ==
    Returned =>
       /\ result = "InvalidGenesisBlockFormat" => arguments.blocks = <<>>
       /\ result \in {"AchronologicalTimestamp", "MismatchedPreviousHash"}
              => arguments.blocks # <<>>

\* A call has refused a block for its timestamp on a chain of two blocks,
\* where no block is refused for the format of a genesis block.
C36_Witness == result = "AchronologicalTimestamp" /\ Len(blocks) = 2

(***************************************************************************)
(* Transactions without inputs after the first                             *)
(***************************************************************************)
\* The transactions without those after the first that have neither inputs
\* nor outputs.
WithoutEmpty(transactions) ==
    IF transactions = <<>> THEN <<>>
    ELSE <<Head(transactions)>>
         \o SelectSeq(Tail(transactions),
                      LAMBDA t : t # Transaction(<<>>, <<>>))

SameBody(body, returned, after) ==
    returned = body.result /\ after = body.unspent_outputs

NoInputTail(chain, unspent, candidate, digest, returned, after, k) ==
    PassesHeader(chain, candidate, digest) =>
        /\ returned # "Panic" =>
               SameBody(check_block_transactions(
                            [blocks |-> chain, unspent_outputs |-> unspent],
                            [candidate EXCEPT !.transactions = WithoutEmpty(@)]),
                        returned, after)
        /\ (/\ candidate.transactions # <<>>
            /\ candidate.transactions[1].inputs = <<>>
            /\ k > 0
            /\ candidate.transactions[k].inputs = <<>>)
               => returned = "InsufficientInputValue"

\* C37: a transaction without inputs after the first is a transaction like
\* any other: without outputs it changes neither the result nor the unspent
\* set, and with outputs worth more than 0 it has the block refused with
\* InsufficientInputValue when no transaction before it fails, so that only
\* the first transaction of a block makes value of no inputs.
C37_NoInputTailTransaction ==
    Returned =>
       NoInputTail(arguments.blocks, arguments.unspent_outputs, arguments.block,
                   hash(Block_bytes(arguments.block)), result, unspent_outputs,
                   ExactFirstOffender(arguments.unspent_outputs,
                                      arguments.block.transactions, 2))

(***************************************************************************)
(* Determinism                                                             *)
(***************************************************************************)
\* The call on self ended as the call twin did, which another chain in the
\* same state made for the candidate with another stored hash: the same
\* result, the same unspent set, and on Ok each chain longer by the block
\* it was given, stored hash and all.  A call that panics leaves its chain
\* as it was.
SameOutcome(self, candidate, other, twin, returned, chain, unspent) ==
    IF returned = "Panic"
    THEN twin.overflow /\ chain = self.blocks /\ unspent = self.unspent_outputs
    ELSE /\ returned = twin.result
         /\ unspent = twin.unspent_outputs
         /\ chain = IF returned = "Ok" THEN Append(self.blocks, candidate)
                    ELSE self.blocks
         /\ twin.blocks = IF returned = "Ok" THEN Append(self.blocks, other)
                          ELSE self.blocks

Deterministic(self, candidate, other, returned, chain, unspent) ==
    SameOutcome(self, candidate, other, update_with_block(self, other),
                returned, chain, unspent)

\* C38: what update_with_block returns and the state it leaves are given
\* by the chain, the unspent set and the candidate: a chain in the same
\* state ends the same way, and the stored hash of the candidate changes
\* nothing but the hash stored in the appended block.
C38_Deterministic ==
    Returned =>
       Deterministic([blocks |-> arguments.blocks, unspent_outputs |-> arguments.unspent_outputs],
                     arguments.block,
                     Restamped(arguments.block, hash(Block_bytes(arguments.block))),
                     result, blocks, unspent_outputs)

\* A block with transactions and a stored hash of 32 zeros has been
\* accepted after another block and has changed the unspent set.
C38_Witness ==
    /\ result = "Ok"
    /\ Len(blocks) >= 2
    /\ blocks[Len(blocks)].hash = Zeros(32)
    /\ Len(blocks[Len(blocks)].transactions) >= 2
    /\ unspent_outputs # {}

====
